---- MODULE Spec2Model ----
(***************************************************************************)
(* Warranty claims agent: the LangGraph pipeline (app/graph.py and its     *)
(* nodes), the two front ends that drive it (the CLI in app/main.py and    *)
(* the Streamlit review console in ui/streamlit_app.py), the checkpoint    *)
(* store (app/checkpointing.py) and the outbound dispatch layer            *)
(* (app/integrations/outbound_email.py over app/database.py).              *)
(*                                                                         *)
(* Spec          one source message driven through the pipeline by one     *)
(*               front end, with process restarts.                        *)
(* SpecDispatch  concurrent send_claim_email calls for one dispatch key.   *)
(* SpecFunctions the stages' functions, each applied once to an input.     *)
(* SpecIndex     concurrent ensure_indexed calls on the empty policy index.*)
(* SpecClaims    two messages advanced side by side; SpecClaimsLive adds   *)
(*               a reviewer who keeps working.                             *)
(***************************************************************************)
EXTENDS Integers, Sequences, FiniteSets, TLC

VARIABLES
    \* ---- pipeline / front ends ----
    frontend,     \* "cli" (app/main.py) or "ui" (ui/streamlit_app.py)
    saver,        \* kind of checkpointer in use: "sqlite" or "memory"
    ckpt,         \* the thread's latest checkpoint: [values, next]
    idClock,      \* number of the next claim_id create_initial_state hands out
    labelFiles,   \* claim ids whose label file exists in the outbox directory
    db,           \* decision column of the claims table row of this message
    stage,        \* st.session_state.workflow_stage
    cur,          \* st.session_state.current_state
    pending,      \* message id is in st.session_state.pending_dispatch
    wf,           \* st.session_state.workflow is a compiled workflow
    ncDraft,      \* st.session_state.non_claim_drafts holds a draft
    pc,           \* position of process_single_claim
    watch,        \* watch_inbox: "off", or where the message stands for the watcher
    \* ---- history of the pipeline (observation only) ----
    lastOp,       \* kind of the last operation
    lastRun,      \* nodes the last operation executed, in order
    lastStatus,   \* workflow_status before the first of them and after each
    parked,       \* interrupts the current pass has stopped at, in order
    sinceInput,   \* nodes executed since the last input (a message or a decision)
    \* ---- dispatch layer ----
    ledger,       \* email_dispatches row of the dispatch key
    call,         \* per caller: the send_claim_email invocation in progress
    providerCalls,\* number of times a provider was contacted for the key
    deliveries,   \* number of provider contacts that succeeded
    returned,     \* a call whose provider contact succeeded has returned
    calls,        \* number of invocations so far
    hasRecipient, \* the payload resolves to a recipient address
    \* ---- functions of the stages, and the policy index ----
    fn            \* the last function application: its kind, input and result;
                  \* under SpecIndex, the collection and its callers
                  \* under SpecClaims, the threads and files of two messages

wfvars == <<frontend, saver, ckpt, idClock, labelFiles, db, stage, cur, pending,
            wf, ncDraft, pc, watch, lastOp, lastRun, lastStatus, parked, sinceInput>>
dvars == <<ledger, call, providerCalls, deliveries, returned, calls, hasRecipient>>
vars == <<wfvars, dvars, fn>>

NULL == "null"
\* No function has been applied yet.
FnIdle == [kind |-> "idle"]
NoLabel == 0
Decisions == {"APPROVE", "REJECT", "NEED_INFO"}
TriageResults == {"CLAIM", "NON_CLAIM", "SPAM"}

\* Bound: how many times a fresh initial state (a new claim_id) is created.
MaxPasses == 2
\* Bound: concurrent callers of send_claim_email for the one dispatch key.
NumCallers == 2
\* Bound: invocations of send_claim_email in total.
MaxCalls == 3

Callers == 1..NumCallers

(***************************************************************************)
(* The claim record (ClaimState).  A field that is None or absent is NULL  *)
(* (NoLabel / FALSE for the label path and the presence flags).  label     *)
(* holds the claim_id the label file is named after.                       *)
(***************************************************************************)
EmptyRecord ==
    [claim_id |-> 0, status |-> NULL, ingested |-> FALSE, triage |-> NULL,
     extracted |-> FALSE, resolved |-> FALSE, retrieved |-> FALSE,
     analysis |-> NULL, packet |-> FALSE, decision |-> NULL, reviewer |-> NULL,
     draft |-> NULL, label |-> NoLabel, email_sent |-> FALSE, error |-> FALSE]

\* LastValue channels: an update overwrites exactly the keys it names.
Merge(s, upd) == [k \in DOMAIN s |-> IF k \in DOMAIN upd THEN upd[k] ELSE s[k]]

create_initial_state(id) == [claim_id |-> id, status |-> "PENDING"]

\* ingested: the record holds a non-empty body, sender and subject, so a later
\* pass skips the file; env.full: the file read supplies all three.
ingest_email(s, env) ==
    IF s.ingested THEN [s EXCEPT !.status = "PENDING"]
    ELSE IF env.found THEN [s EXCEPT !.ingested = env.full, !.status = "PENDING"]
    ELSE [s EXCEPT !.status = "ERROR", !.error = TRUE]

triage_email(s, env) ==
    IF s.status = "ERROR" THEN s
    ELSE [s EXCEPT !.triage = env.tri, !.status = "TRIAGED"]

extract_fields(s) ==
    IF s.status = "ERROR" THEN s
    ELSE [s EXCEPT !.extracted = TRUE, !.status = "EXTRACTED"]

select_product_policy(s) ==
    IF s.status = "ERROR" THEN s ELSE [s EXCEPT !.resolved = TRUE]

retrieve_policy_excerpts(s) ==
    IF s.status = "ERROR" THEN s ELSE [s EXCEPT !.retrieved = TRUE]

analyze_claim(s, env) ==
    IF s.status = "ERROR" THEN s
    ELSE [s EXCEPT !.analysis = env.rec, !.status = "ANALYZED"]

build_review_packet(s) ==
    IF s.status = "ERROR" THEN s
    ELSE [s EXCEPT !.packet = TRUE, !.status = "AWAITING_REVIEW"]

ValidDecision(d) == IF d \in Decisions THEN d ELSE "NEED_INFO"

human_review_gate(s) ==
    IF s.decision = NULL
    THEN [s EXCEPT !.decision = IF s.analysis = NULL THEN "NEED_INFO" ELSE s.analysis,
                   !.reviewer = "system",
                   !.status = "REVIEWED"]
    ELSE [s EXCEPT !.decision = ValidDecision(s.decision), !.status = "REVIEWED"]

\* The draft is named after the template it was rendered from.
draft_customer_response(s) ==
    [s EXCEPT !.draft = IF s.decision \in {"APPROVE", "REJECT"} THEN s.decision
                        ELSE "NEED_INFO"]

email_gate(s) == [s EXCEPT !.status = "AWAITING_EMAIL"]

write_to_outbox(s) == [s EXCEPT !.status = "COMPLETED"]

generate_return_label(s, ok) ==
    IF s.decision # "APPROVE" THEN [s EXCEPT !.label = NoLabel]
    ELSE IF ok THEN [s EXCEPT !.label = s.claim_id]
    ELSE [s EXCEPT !.label = NoLabel, !.error = TRUE]

(***************************************************************************)
(* The graph: nodes, edges, the two interrupt_before points.               *)
(***************************************************************************)
should_continue_after_triage(s) == IF s.triage = "CLAIM" THEN "extract" ELSE "END"

\* Defined by the graph module, wired to no edge.
should_generate_label(s) == IF s.decision = "APPROVE" THEN "return_label" ELSE "email_gate"

\* A draft edge that routes approvals through label generation.
DraftEdgeViaLabel(s) == should_generate_label(s)

\* workflow.add_edge("draft_response", "email_gate")
DraftEdge(s) == "email_gate"

Successor(node, s) ==
    CASE node = "ingest" -> "triage"
      [] node = "triage" -> should_continue_after_triage(s)
      [] node = "extract" -> "select_policy"
      [] node = "select_policy" -> "retrieve_excerpts"
      [] node = "retrieve_excerpts" -> "analyze"
      [] node = "analyze" -> "review_packet"
      [] node = "review_packet" -> "human_review"
      [] node = "human_review" -> "draft_response"
      [] node = "draft_response" -> DraftEdge(s)
      [] node = "email_gate" -> "outbox"
      [] node = "outbox" -> "END"
      [] node = "return_label" -> "END"

\* A compilation that interrupts before the human review only.
InterruptBeforeReviewOnly == {"human_review"}

InterruptBefore == {"human_review", "email_gate"}

ApplyNode(node, s, env) ==
    CASE node = "ingest" -> ingest_email(s, env)
      [] node = "triage" -> triage_email(s, env)
      [] node = "extract" -> extract_fields(s)
      [] node = "select_policy" -> select_product_policy(s)
      [] node = "retrieve_excerpts" -> retrieve_policy_excerpts(s)
      [] node = "analyze" -> analyze_claim(s, env)
      [] node = "review_packet" -> build_review_packet(s)
      [] node = "human_review" -> human_review_gate(s)
      [] node = "draft_response" -> draft_customer_response(s)
      [] node = "email_gate" -> email_gate(s)
      [] node = "outbox" -> write_to_outbox(s)
      [] node = "return_label" -> generate_return_label(s, env.labelOk)

\* Run nodes from `node` until END or an interrupt_before node; `resuming` is
\* TRUE for the node a resume starts at, which is not interrupted again.
RECURSIVE RunGraph(_, _, _, _)
RunGraph(s, node, env, resuming) ==
    IF node = "END"
    THEN [values |-> s, next |-> "END", trace |-> <<>>, statuses |-> <<s.status>>]
    ELSE IF node \in InterruptBefore /\ ~resuming
         THEN [values |-> s, next |-> node, trace |-> <<>>, statuses |-> <<s.status>>]
    ELSE LET s2 == ApplyNode(node, s, env)
             r == RunGraph(s2, Successor(node, s2), env, FALSE)
         IN [r EXCEPT !.trace = <<node>> \o r.trace,
                      !.statuses = <<s.status>> \o r.statuses]

NoCkpt == [values |-> EmptyRecord, next |-> NULL]

\* workflow.stream(initial_state, config): new input starts a pass at the entry
\* point; channels the input does not name keep the thread's values.
StreamInput(c, input, env) ==
    RunGraph(Merge(c.values, input), "ingest", env, FALSE)

\* workflow.stream(None, config): continue from the checkpoint's next node.
StreamNone(c, env) ==
    IF c.next \in {NULL, "END"}
    THEN [values |-> c.values, next |-> c.next, trace |-> <<>>, statuses |-> <<>>]
    ELSE RunGraph(c.values, c.next, env, TRUE)

\* workflow.update_state(config, values): the next node stays.
update_state(c, upd) == [c EXCEPT !.values = Merge(c.values, upd)]

\* workflow.update_state(config, values, as_node=n): as if n had just run.
update_state_as_node(c, upd, n) ==
    [values |-> Merge(c.values, upd), next |-> Successor(n, Merge(c.values, upd))]

Envs == [found : BOOLEAN, full : BOOLEAN, tri : TriageResults, rec : Decisions,
         labelOk : BOOLEAN]

\* A resume from an interrupt runs none of the nodes that read the file, the
\* classifier or the analyser: those answers are fixed for it.
ResumeEnvs ==
    {env \in Envs : env.found /\ env.full /\ env.tri = "CLAIM" /\ env.rec = "APPROVE"}

(***************************************************************************)
(* History of the pipeline: what the last operation executed, where the    *)
(* current pass has stopped, what no-input resumes have executed.          *)
(***************************************************************************)
Range(seq) == {seq[i] : i \in DOMAIN seq}

Observe(op, r) ==
    /\ lastOp' = op
    /\ lastRun' = r.trace
    /\ lastStatus' = r.statuses
    /\ parked' =
         LET base == IF op = "start" THEN <<>> ELSE parked
         IN IF r.next \in InterruptBefore
               /\ (base = <<>> \/ base[Len(base)] # r.next)
            THEN Append(base, r.next) ELSE base
    /\ sinceInput' =
         CASE op \in {"start", "decide"} -> Range(r.trace)
           [] op \in {"resume_none", "confirm"} -> sinceInput \cup Range(r.trace)
           [] op \in {"reset", "restart"} -> {}
           [] OTHER -> sinceInput

NoRun(c) == [values |-> c.values, next |-> c.next, trace |-> <<>>, statuses |-> <<>>]

Checkpoint(r) == [values |-> r.values, next |-> r.next]

(***************************************************************************)
(* Review console (ui/streamlit_app.py).                                   *)
(***************************************************************************)
UIOnly == frontend = "ui"

\* Path(label_path).exists() on the session's record.
LabelExists(s) == s.label # NoLabel /\ s.label \in labelFiles

\* state.get("triage_result", "CLAIM")
ReviewTriage(s) == IF s.triage = NULL THEN "CLAIM" ELSE s.triage

\* "Process": run_workflow_to_review.
UIProcess ==
    /\ UIOnly /\ stage = "select" /\ db = NULL /\ ~pending
    /\ \E env \in Envs :
         LET fresh == ckpt.values = EmptyRecord
             r == IF fresh
                  THEN StreamInput(ckpt, create_initial_state(idClock), env)
                  ELSE StreamNone(ckpt, env)
         IN /\ fresh => idClock <= MaxPasses
            /\ idClock' = IF fresh THEN idClock + 1 ELSE idClock
            /\ ckpt' = Checkpoint(r)
            /\ cur' = r.values
            /\ stage' = IF r.values.status = "AWAITING_EMAIL" THEN "dispatch" ELSE "review"
            /\ wf' = TRUE
            /\ Observe(IF fresh THEN "start" ELSE "resume_none", r)
    /\ UNCHANGED <<frontend, saver, labelFiles, db, pending, ncDraft, pc, watch, dvars, fn>>

\* "Resume" on a message listed in pending_dispatch.
UIResumePending ==
    /\ UIOnly /\ stage = "select" /\ db = NULL /\ pending
    /\ stage' = "dispatch"
    /\ Observe("other", NoRun(ckpt))
    /\ UNCHANGED <<frontend, saver, ckpt, idClock, labelFiles, db, cur, pending,
                   wf, ncDraft, pc, watch, dvars, fn>>

\* A decision update that keeps the label of the previous decision.
DecisionUpdateKeepingLabel(d) ==
    [decision |-> d, reviewer |-> "streamlit_user", draft |-> NULL]

\* The values resume_workflow_with_decision writes before it resumes.
DecisionUpdate(d) ==
    [decision |-> d, reviewer |-> "streamlit_user", label |-> NoLabel, draft |-> NULL]

\* resume_workflow_with_decision(decision).
resume_workflow_with_decision(d, env) ==
    LET c1 == update_state_as_node(ckpt, DecisionUpdate(d), "human_review")
        r == StreamNone(c1, env)
        awaiting == r.next = "email_gate" \/ r.values.status = "AWAITING_EMAIL"
    IN /\ ckpt' = Checkpoint(r)
       /\ cur' = r.values
       /\ stage' = IF awaiting THEN "dispatch" ELSE "complete"
       /\ pending' = IF awaiting THEN TRUE ELSE pending
       /\ db' = IF awaiting THEN db ELSE d
       /\ Observe("decide", r)

\* The decision form of the review screen.
UIDecide ==
    /\ UIOnly /\ stage = "review" /\ cur # EmptyRecord /\ ReviewTriage(cur) = "CLAIM"
    /\ \E d \in Decisions, env \in ResumeEnvs : resume_workflow_with_decision(d, env)
    /\ UNCHANGED <<frontend, saver, idClock, labelFiles, wf, ncDraft, pc, watch, dvars, fn>>

\* "Back to List" / "Return to Inbox" / "Back to Inbox" of the review screen.
UIBackToList ==
    /\ UIOnly /\ stage = "review"
    /\ stage' = "select"
    /\ cur' = EmptyRecord
    /\ Observe("other", NoRun(ckpt))
    /\ UNCHANGED <<frontend, saver, ckpt, idClock, labelFiles, db, pending, wf,
                   ncDraft, pc, watch, dvars, fn>>

\* "Confirm & Archive" of a message flagged NON_CLAIM or SPAM.
UIArchive ==
    /\ UIOnly /\ stage = "review" /\ cur # EmptyRecord /\ ReviewTriage(cur) # "CLAIM"
    /\ db' = cur.triage
    /\ stage' = "select"
    /\ cur' = EmptyRecord
    /\ Observe("other", NoRun(ckpt))
    /\ UNCHANGED <<frontend, saver, ckpt, idClock, labelFiles, pending, wf,
                   ncDraft, pc, watch, dvars, fn>>

\* "Not Spam - Force Process": the nodes run on the session's copy only.
UIForceProcess ==
    /\ UIOnly /\ stage = "review" /\ cur # EmptyRecord /\ ReviewTriage(cur) # "CLAIM"
    /\ \E env \in Envs :
         cur' = build_review_packet(analyze_claim(retrieve_policy_excerpts(
                    select_product_policy(extract_fields(
                        [cur EXCEPT !.triage = "CLAIM"]))), env))
    /\ Observe("force", [NoRun(ckpt) EXCEPT !.trace =
                  <<"extract", "select_policy", "retrieve_excerpts", "analyze",
                    "review_packet">>])
    /\ UNCHANGED <<frontend, saver, ckpt, idClock, labelFiles, db, stage, pending,
                   wf, ncDraft, pc, watch, dvars, fn>>

\* "Draft Response" to a NON_CLAIM message.
UIDraftNonClaim ==
    /\ UIOnly /\ stage = "review" /\ cur # EmptyRecord /\ ReviewTriage(cur) = "NON_CLAIM"
    /\ ncDraft' = TRUE
    /\ Observe("other", NoRun(ckpt))
    /\ UNCHANGED <<frontend, saver, ckpt, idClock, labelFiles, db, stage, cur,
                   pending, wf, pc, watch, dvars, fn>>

\* "Send Response" to a NON_CLAIM message.
UISendNonClaim ==
    /\ UIOnly /\ stage = "review" /\ cur # EmptyRecord /\ ReviewTriage(cur) = "NON_CLAIM"
    /\ ncDraft
    /\ db' = "NON_CLAIM"
    /\ ncDraft' = FALSE
    /\ cur' = EmptyRecord
    /\ stage' = "select"
    /\ Observe("other", NoRun(ckpt))
    /\ UNCHANGED <<frontend, saver, ckpt, idClock, labelFiles, pending, wf, pc, watch, dvars, fn>>

\* "Generate & Attach Label" of the dispatch screen.
UIGenerateLabel ==
    /\ UIOnly /\ stage = "dispatch" /\ cur # EmptyRecord
    /\ cur.decision = "APPROVE" /\ ~LabelExists(cur)
    /\ \E ok \in BOOLEAN :
         LET updated == generate_return_label(cur, ok)
         IN /\ cur' = updated
            /\ labelFiles' = IF ok THEN labelFiles \cup {cur.claim_id} ELSE labelFiles
            /\ ckpt' = IF wf THEN update_state(ckpt, [label |-> updated.label]) ELSE ckpt
    /\ Observe("label", [NoRun(ckpt) EXCEPT !.trace = <<"return_label">>])
    /\ UNCHANGED <<frontend, saver, idClock, db, stage, pending, wf, ncDraft, pc, watch, dvars, fn>>

\* "Confirm & Send": complete_workflow_and_send.
UIConfirmSend ==
    /\ UIOnly /\ stage = "dispatch" /\ cur # EmptyRecord
    /\ ~(cur.decision = "APPROVE" /\ ~LabelExists(cur))
    /\ \E env \in ResumeEnvs :
         LET r == StreamNone(update_state(ckpt, [email_sent |-> TRUE]), env)
         IN /\ ckpt' = Checkpoint(r)
            /\ cur' = r.values
            /\ db' = r.values.decision
            /\ Observe("confirm", r)
    /\ stage' = "complete"
    /\ pending' = FALSE
    /\ UNCHANGED <<frontend, saver, idClock, labelFiles, wf, ncDraft, pc, watch, dvars, fn>>

\* "Revise Decision".
UIRevise ==
    /\ UIOnly /\ stage = "dispatch" /\ cur # EmptyRecord
    /\ pending' = FALSE
    /\ stage' = "review"
    /\ Observe("other", NoRun(ckpt))
    /\ UNCHANGED <<frontend, saver, ckpt, idClock, labelFiles, db, cur, wf,
                   ncDraft, pc, watch, dvars, fn>>

\* "Cancel & Return to Inbox".
UICancel ==
    /\ UIOnly /\ stage = "dispatch" /\ cur # EmptyRecord
    /\ pending' = FALSE
    /\ stage' = "select"
    /\ Observe("other", NoRun(ckpt))
    /\ UNCHANGED <<frontend, saver, ckpt, idClock, labelFiles, db, cur, wf,
                   ncDraft, pc, watch, dvars, fn>>

\* "Back to Inbox" of a dispatch or completion screen that has no record.
UINoStateBack ==
    /\ UIOnly /\ stage \in {"dispatch", "complete"} /\ cur = EmptyRecord
    /\ stage' = "select"
    /\ Observe("other", NoRun(ckpt))
    /\ UNCHANGED <<frontend, saver, ckpt, idClock, labelFiles, db, cur, pending,
                   wf, ncDraft, pc, watch, dvars, fn>>

\* "Process Next Claim" of the completion screen.
UIProcessNext ==
    /\ UIOnly /\ stage = "complete" /\ cur # EmptyRecord
    /\ stage' = "select"
    /\ cur' = EmptyRecord
    /\ Observe("other", NoRun(ckpt))
    /\ UNCHANGED <<frontend, saver, ckpt, idClock, labelFiles, db, pending, wf,
                   ncDraft, pc, watch, dvars, fn>>

\* "Reset Session" of the sidebar.
UIResetSession ==
    /\ UIOnly
    /\ db' = NULL
    /\ cur' = EmptyRecord
    /\ wf' = FALSE
    /\ ckpt' = NoCkpt
    /\ stage' = "select"
    /\ Observe("reset", NoRun(NoCkpt))
    /\ UNCHANGED <<frontend, saver, idClock, labelFiles, pending, ncDraft, pc, watch, dvars, fn>>

(***************************************************************************)
(* CLI (app/main.py): process_single_claim, one action per stream call.    *)
(***************************************************************************)
CLIOnly == frontend = "cli"

\* analysis.get('recommendation', 'APPROVE') under --auto-approve.
AutoDecision(s) == IF s.analysis = NULL THEN "APPROVE" ELSE s.analysis

\* --watch: watch_inbox reads the processed ids from the claims table.
WatchStart ==
    /\ CLIOnly /\ pc = "idle" /\ watch = "off"
    /\ watch' = IF db # NULL THEN "done" ELSE "new"
    /\ Observe("other", NoRun(ckpt))
    /\ UNCHANGED <<frontend, saver, ckpt, idClock, labelFiles, db, stage, cur, pending,
                   wf, ncDraft, pc, dvars, fn>>

\* process_single_claim, called by --process or for a message the watcher
\* does not hold as processed.
CLIStart ==
    /\ CLIOnly /\ pc = "idle" /\ idClock <= MaxPasses /\ watch # "done"
    /\ \E env \in Envs :
         LET r == StreamInput(ckpt, create_initial_state(idClock), env)
         IN /\ ckpt' = Checkpoint(r)
            /\ pc' = IF r.next = "human_review" THEN "review" ELSE "finish"
            /\ Observe("start", r)
    /\ idClock' = idClock + 1
    /\ UNCHANGED <<frontend, saver, labelFiles, db, stage, cur, pending, wf,
                   ncDraft, watch, dvars, fn>>

CLIDecide ==
    /\ CLIOnly /\ pc = "review"
    /\ \E auto \in BOOLEAN, typed \in Decisions \cup {"other"}, env \in ResumeEnvs :
         LET d == IF auto THEN AutoDecision(ckpt.values) ELSE ValidDecision(typed)
             r == StreamNone(update_state(ckpt,
                      [decision |-> d, reviewer |-> "cli_user"]), env)
         IN /\ ckpt' = Checkpoint(r)
            /\ pc' = IF r.next = "email_gate" THEN "dispatch" ELSE "finish"
            /\ Observe("decide", r)
    /\ UNCHANGED <<frontend, saver, idClock, labelFiles, db, stage, cur, pending,
                   wf, ncDraft, watch, dvars, fn>>

CLIFinalize ==
    /\ CLIOnly /\ pc = "dispatch"
    /\ \E env \in ResumeEnvs :
         LET r == StreamNone(update_state(ckpt, [email_sent |-> TRUE]), env)
         IN /\ ckpt' = Checkpoint(r)
            /\ Observe("confirm", r)
    /\ pc' = "finish"
    /\ UNCHANGED <<frontend, saver, idClock, labelFiles, db, stage, cur, pending,
                   wf, ncDraft, watch, dvars, fn>>

CLIFinish ==
    /\ CLIOnly /\ pc = "finish"
    /\ db' = IF ckpt.values.status = "COMPLETED"
                \/ ckpt.values.triage \in {"SPAM", "NON_CLAIM"}
             THEN (IF ckpt.values.decision # NULL THEN ckpt.values.decision
                   ELSE ckpt.values.triage)
             ELSE db
    /\ pc' = "idle"
    /\ watch' = IF watch = "off" THEN "off"
                ELSE IF ckpt.values.status = "COMPLETED"
                        \/ ckpt.values.triage \in {"SPAM", "NON_CLAIM"}
                THEN "done" ELSE "skipped"
    /\ Observe("other", NoRun(ckpt))
    /\ UNCHANGED <<frontend, saver, ckpt, idClock, labelFiles, stage, cur, pending,
                   wf, ncDraft, dvars, fn>>

(***************************************************************************)
(* Process restart: what lives in the process is lost, files and SQLite    *)
(* databases stay.                                                         *)
(***************************************************************************)
Restart ==
    /\ ckpt' = IF saver = "memory" THEN NoCkpt ELSE ckpt
    /\ stage' = "select"
    /\ cur' = EmptyRecord
    /\ pending' = FALSE
    /\ wf' = FALSE
    /\ ncDraft' = FALSE
    /\ pc' = "idle"
    /\ watch' = "off"
    /\ Observe("restart", NoRun(ckpt))
    /\ UNCHANGED <<frontend, saver, idClock, labelFiles, db, dvars, fn>>

InitWorkflow ==
    /\ frontend \in {"cli", "ui"}
    /\ saver \in {"sqlite", "memory"}
    /\ frontend = "ui" => saver = "memory"
    /\ ckpt = NoCkpt
    /\ idClock = 1
    /\ labelFiles = {}
    /\ db = NULL
    /\ stage = "select"
    /\ cur = EmptyRecord
    /\ pending = FALSE
    /\ wf = FALSE
    /\ ncDraft = FALSE
    /\ pc = "idle"
    /\ watch = "off"
    /\ lastOp = "init"
    /\ lastRun = <<>>
    /\ lastStatus = <<>>
    /\ parked = <<>>
    /\ sinceInput = {}

IdleCall == [pc |-> "idle", mode |-> NULL, svc |-> FALSE, remembered |-> FALSE,
             after |-> FALSE, outcome |-> NULL, result |-> NULL]

InitDispatchIdle ==
    /\ ledger = NULL
    /\ call = [c \in Callers |-> IdleCall]
    /\ providerCalls = 0
    /\ deliveries = 0
    /\ returned = FALSE
    /\ calls = 0
    /\ hasRecipient = TRUE

(***************************************************************************)
(* Dispatch layer: send_claim_email for one dispatch key (one claim, one   *)
(* payload).  Each ledger access and the provider contact is one step.     *)
(***************************************************************************)
SendModes == {"manual", "gmail_api", "smtp", "unsupported"}

\* get_dispatch_by_key: the row's status, NULL when there is no row.
get_dispatch_by_key == ledger

\* record_email_dispatch: INSERT ... ON CONFLICT(dispatch_key) DO UPDATE.
record_email_dispatch(status) == ledger' = status

\* The in-memory record's email_sent flag is `remembered`; the code never reads it.
SendInvoke(c) ==
    /\ call[c].pc = "idle" /\ calls < MaxCalls
    /\ \E m \in SendModes, s \in BOOLEAN, rem \in BOOLEAN :
         call' = [call EXCEPT ![c] = [IdleCall EXCEPT !.pc = "lookup", !.mode = m,
                                        !.svc = s, !.remembered = rem,
                                        !.after = returned]]
    /\ calls' = calls + 1
    /\ UNCHANGED <<ledger, providerCalls, deliveries, returned, hasRecipient, wfvars, fn>>

\* A call's locals that no later statement of the call reads.
Forget(r) == [r EXCEPT !.mode = NULL, !.svc = FALSE, !.remembered = FALSE]

\* existing = get_dispatch_by_key(dispatch_key) and the branch taken on it.
SendLookup(c) ==
    /\ call[c].pc = "lookup"
    /\ call' = [call EXCEPT ![c] =
         IF get_dispatch_by_key = "SENT"
         THEN Forget([@ EXCEPT !.pc = "done", !.result = "SENT_DUPLICATE_SKIPPED"])
         ELSE IF ~hasRecipient
         THEN Forget([@ EXCEPT !.pc = "record", !.outcome = "FAILED"])
         ELSE IF @.mode = "manual"
         THEN Forget([@ EXCEPT !.pc = "record", !.outcome = "SKIPPED"])
         ELSE [@ EXCEPT !.pc = "provider", !.remembered = FALSE]]
    /\ UNCHANGED <<ledger, providerCalls, deliveries, returned, calls, hasRecipient,
                   wfvars, fn>>

\* The try block: _send_gmail_api / _send_smtp, or a RuntimeError before them.
SendProvider(c) ==
    /\ call[c].pc = "provider"
    /\ LET contacts == \/ call[c].mode = "smtp"
                       \/ call[c].mode = "gmail_api" /\ call[c].svc
       IN \E accepted \in BOOLEAN :
            /\ providerCalls' = IF contacts THEN providerCalls + 1 ELSE providerCalls
            /\ deliveries' = IF contacts /\ accepted THEN deliveries + 1 ELSE deliveries
            /\ call' = [call EXCEPT ![c] =
                 Forget([@ EXCEPT !.pc = "record",
                                  !.outcome = IF contacts /\ accepted
                                              THEN "SENT" ELSE "FAILED"])]
    /\ UNCHANGED <<ledger, returned, calls, hasRecipient, wfvars, fn>>

\* record_email_dispatch(..., status=...) followed by the return statement.
SendRecord(c) ==
    /\ call[c].pc = "record"
    /\ record_email_dispatch(call[c].outcome)
    /\ call' = [call EXCEPT ![c].pc = "done", ![c].result = call[c].outcome]
    /\ UNCHANGED <<providerCalls, deliveries, returned, calls, hasRecipient, wfvars, fn>>

\* The caller has the DispatchResult and may call again.
SendReturn(c) ==
    /\ call[c].pc = "done"
    /\ returned' = (returned \/ call[c].result = "SENT")
    /\ call' = [call EXCEPT ![c] = IdleCall]
    /\ UNCHANGED <<ledger, providerCalls, deliveries, calls, hasRecipient, wfvars, fn>>

InitDispatch ==
    /\ frontend = "cli" /\ saver = "sqlite"
    /\ InitWorkflow
    /\ ledger = NULL
    /\ call = [c \in Callers |-> IdleCall]
    /\ providerCalls = 0
    /\ deliveries = 0
    /\ returned = FALSE
    /\ calls = 0
    /\ hasRecipient \in BOOLEAN
    /\ fn = FnIdle

NextDispatch ==
    \E c \in Callers :
        \/ SendInvoke(c)
        \/ SendLookup(c)
        \/ SendProvider(c)
        \/ SendRecord(c)
        \/ SendReturn(c)

SpecDispatch == InitDispatch /\ [][NextDispatch]_vars

(***************************************************************************)
(* The policy index (app/vector_store.py): one persistent collection and   *)
(* concurrent callers of ensure_indexed.  Each call on the collection is   *)
(* one step.                                                               *)
(***************************************************************************)
\* Bound: concurrent callers of ensure_indexed.
NumIndexers == 3

Indexers == 1 .. NumIndexers

\* POLICIES_DIR.glob("*.txt") and the chunk ids f"{filename}_{i}" of each file
PolicyFiles == <<"pro.txt", "travel.txt">>

ChunkIdsOf(file) ==
    IF file = "pro.txt" THEN {"pro.txt_0", "pro.txt_1"} ELSE {"travel.txt_0"}

ChunkIds == UNION {ChunkIdsOf(PolicyFiles[i]) : i \in DOMAIN PolicyFiles}

\* collection.count()
collection_count(collection) ==
    LET RECURSIVE total(_)
        total(ids) == IF ids = {} THEN 0
                      ELSE LET id == CHOOSE x \in ids : TRUE
                           IN collection[id] + total(ids \ {id})
    IN total(ChunkIds)

\* A collection that stores an added id again beside the one it holds.
collection_add_again(collection, ids) ==
    [id \in ChunkIds |-> IF id \in ids THEN collection[id] + 1 ELSE collection[id]]

\* collection.add(ids=ids, ...): ids are keys; an id the collection holds is
\* not added again.
collection_add(collection, ids) ==
    [id \in ChunkIds |-> IF id \in ids THEN 1 ELSE collection[id]]

\* pc "done": the call has returned count.
IdleIndexer == [pc |-> "idle", file |-> 1, count |-> 0]

\* get_vector_store() and the call of ensure_indexed
IndexCall(t) ==
    /\ fn.kind = "index" /\ fn.thread[t].pc = "idle"
    /\ fn' = [fn EXCEPT !.thread[t].pc = "ensure"]
    /\ UNCHANGED <<wfvars, dvars>>

\* ensure_indexed: if self.collection.count() == 0
EnsureIndexed(t) ==
    /\ fn.kind = "index" /\ fn.thread[t].pc = "ensure"
    /\ fn' = IF collection_count(fn.collection) = 0
             THEN [fn EXCEPT !.thread[t].pc = "index_policies"]
             ELSE [fn EXCEPT !.thread[t].pc = "done",
                             !.thread[t].count = collection_count(fn.collection)]
    /\ UNCHANGED <<wfvars, dvars>>

\* index_policies: the "already populated" check
IndexPoliciesCheck(t) ==
    /\ fn.kind = "index" /\ fn.thread[t].pc = "index_policies"
    /\ fn' = IF collection_count(fn.collection) > 0
             THEN [fn EXCEPT !.thread[t].pc = "done",
                             !.thread[t].count = collection_count(fn.collection)]
             ELSE [fn EXCEPT !.thread[t].pc = "files", !.thread[t].file = 1]
    /\ UNCHANGED <<wfvars, dvars>>

\* One pass of the loop over the files: collection.add of the file's chunks.
\* When the collection holds the ids already, the add either returns or
\* raises, by the library's version; the except clause goes on with the next
\* file, so the call ends only by returning.
IndexFile(t) ==
    /\ fn.kind = "index" /\ fn.thread[t].pc = "files"
    /\ LET me == fn.thread[t]
           ids == ChunkIdsOf(PolicyFiles[me.file])
           held == \E id \in ids : fn.collection[id] > 0
           last == me.file = Len(PolicyFiles)
       IN \E raises \in {FALSE, held} :
            fn' = [fn EXCEPT
                     !.collection = IF raises THEN @ ELSE collection_add(@, ids),
                     !.thread[t] =
                         [pc |-> IF last THEN "done" ELSE "files",
                          file |-> IF last THEN me.file ELSE me.file + 1,
                          count |-> IF raises THEN me.count
                                    ELSE me.count + Cardinality(ids)]]
    /\ UNCHANGED <<wfvars, dvars>>

InitIndex ==
    /\ InitWorkflow /\ frontend = "cli" /\ saver = "sqlite"
    /\ InitDispatchIdle
    /\ fn = [kind |-> "index", collection |-> [id \in ChunkIds |-> 0],
             thread |-> [t \in Indexers |-> IdleIndexer]]

NextIndex ==
    \E t \in Indexers :
        \/ IndexCall(t)
        \/ EnsureIndexed(t)
        \/ IndexPoliciesCheck(t)
        \/ IndexFile(t)

SpecIndex == InitIndex /\ [][NextIndex]_vars

Init == InitWorkflow /\ InitDispatchIdle /\ fn = FnIdle

Next ==
    \/ UIProcess
    \/ UIResumePending
    \/ UIDecide
    \/ UIBackToList
    \/ UIArchive
    \/ UIForceProcess
    \/ UIDraftNonClaim
    \/ UISendNonClaim
    \/ UIGenerateLabel
    \/ UIConfirmSend
    \/ UIRevise
    \/ UICancel
    \/ UINoStateBack
    \/ UIProcessNext
    \/ UIResetSession
    \/ WatchStart
    \/ CLIStart
    \/ CLIDecide
    \/ CLIFinalize
    \/ CLIFinish
    \/ Restart

Spec == Init /\ [][Next]_vars

(***************************************************************************)
(* Pure functions of the analysis stage (nodes/analyze.py).  fn holds one  *)
(* application: its kind, its input, whether the function has been        *)
(* applied, and the result.                                                *)
(***************************************************************************)
WARRANTY_PERIOD_MONTHS == 3

\* Instants per calendar day: a datetime is a number of instants since
\* midnight of day 0, a date string is a day number.
DayUnits == 4

MaxPurchaseDay == 1

\* purchase_date_str is empty or None.
NoDate == -1

\* purchase_date_str does not match %Y-%m-%d.
BadDate == -2

\* datetime.strptime(s, "%Y-%m-%d"): midnight of that day.
strptime(day) == day * DayUnits

\* The calendar date of a datetime.
DateOf(ts) == ts \div DayUnits

\* timedelta(days=n)
timedelta(days) == days * DayUnits

\* check_warranty_window(purchase_date_str, claim_date)[0]; claimTs is the
\* parsed claim date, or datetime.now() when it is absent or unparseable.
check_warranty_window(purchase, claimTs) ==
    IF purchase = NoDate THEN "None"
    ELSE IF purchase = BadDate THEN "None"
    ELSE LET purchase_date == strptime(purchase)
             warranty_expiration ==
                 purchase_date + timedelta(WARRANTY_PERIOD_MONTHS * 30)
         IN IF claimTs <= warranty_expiration THEN "True" ELSE "False"

PurchaseInputs == {NoDate, BadDate} \cup (0 .. MaxPurchaseDay)

ClaimInstants == strptime(88) .. (strptime(MaxPurchaseDay + 93) - 1)

WindowInputs ==
    [kind : {"window"}, purchase : PurchaseInputs, claimTs : ClaimInstants,
     applied : {FALSE}, out : {NULL}]

\* Normalized text is a sequence of words joined by single blanks.
Keyword == "damage"

Negations == {"no", "not", "never"}

Words == {"not", Keyword, "x", "xxxx"}

\* len(word)
WordLen(w) ==
    CASE w = "not" -> 3
      [] w = "no" -> 2
      [] w = "never" -> 5
      [] w = Keyword -> 6
      [] w = "x" -> 1
      [] w = "xxxx" -> 4
      [] w = "broken" -> 6
      [] w = "thermostat" -> 10
      [] w = "pro" -> 3
      [] w = "style" -> 5
      [] w = "travel" -> 6
      [] w = "mini" -> 4
      [] w = "toaster" -> 7
      [] w = "hd" -> 2
      [] w = "trv" -> 3
      [] w = "001" -> 3

MaxWords == 4

Texts == UNION {[1 .. n -> Words] : n \in 0 .. MaxWords}

\* Index in the text of the first character of word i.
RECURSIVE Offset(_, _)
Offset(text, i) ==
    IF i = 1 THEN 0 ELSE Offset(text, i - 1) + WordLen(text[i - 1]) + 1

NegationWindow == 12

\* re.search(r"\b(no|not|never)\b", text[max(0, idx - 12):idx]) for the
\* occurrence that starts at word i: a whole negation word lies in the window.
NegatedAt(text, i) ==
    LET idx == Offset(text, i)
        lo == IF idx - NegationWindow > 0 THEN idx - NegationWindow ELSE 0
    IN \E j \in 1 .. (i - 1) : text[j] \in Negations /\ Offset(text, j) >= lo

\* text.find(keyword): the first occurrence, 0 when there is none.
find(text, keyword) ==
    LET occ == {i \in DOMAIN text : text[i] = keyword}
    IN IF occ = {} THEN 0 ELSE CHOOSE i \in occ : \A k \in occ : i <= k

\* _keyword_present(text, keyword)
keyword_present(text, keyword) ==
    LET first == find(text, keyword)
    IN IF first = 0 THEN FALSE
       ELSE IF NegatedAt(text, first) THEN FALSE
       ELSE TRUE

\* _find_exclusion_hits(text, keywords)
find_exclusion_hits(text, keywords) ==
    {kw \in keywords : keyword_present(text, kw)}

ScanInputs ==
    [kind : {"scan"}, text : Texts, applied : {FALSE}, out : {NULL}]

\* Issue descriptions, as word sequences: none, 6, 32, 39 and 54 characters.
Descs ==
    {<<>>,
     <<"broken">>,
     <<"thermostat", "thermostat", "thermostat">>,
     <<"thermostat", "thermostat", "thermostat", "broken">>,
     <<"thermostat", "thermostat", "thermostat", "thermostat", "thermostat">>}

\* len(issue_desc)
DescLen(d) == IF d = <<>> THEN 0 ELSE Offset(d, Len(d)) + WordLen(d[Len(d)])

\* identify_missing_fields(fields)
identify_missing_fields(f) ==
    {k \in {"customer_name", "product_name"} : ~f[k]}
      \cup (IF f.purchase = NoDate THEN {"purchase_date"} ELSE {})
      \cup (IF f.desc = <<>> THEN {"issue_description"} ELSE {})
      \cup (IF f.customer_email \/ f.customer_address \/ f.customer_phone
            THEN {} ELSE {"contact_info"})

vague_phrases ==
    {"broken", "not working", "doesn't work", "stopped", "help", "issue", "problem"}

\* is_vague: the third test asks, of each word that is a vague phrase,
\* whether it occurs in the description.
is_vague(d) ==
    \/ DescLen(d) < 30
    \/ (IF d = <<>> THEN "" ELSE d[Len(d)]) \in {"broken", "issue", "problem"}
    \/ \A i \in DOMAIN d :
         d[i] \in vague_phrases => (\E j \in DOMAIN d : d[j] = d[i])

\* critical_missing of analyze_claim
critical_missing(f) ==
    (identify_missing_fields(f)
        \cap {"product_name", "issue_description", "contact_info"})
      \cup (IF f.product_serial THEN {} ELSE {"serial_number"})
      \cup (IF is_vague(f.desc) /\ DescLen(f.desc) < 50
            THEN {"detailed_issue_description"} ELSE {})
      \cup (IF f.customer_address THEN {} ELSE {"customer_address"})

\* _check_requirements_missing(state, extracted), for the requirements that
\* are tested on extracted fields.
check_requirements_missing(f) ==
    {req \in f.requirements :
       \/ req = "proof_of_purchase" /\ ~f.has_proof_of_purchase
       \/ req = "serial_number" /\ ~f.product_serial
       \/ req = "contact_info"
            /\ ~(f.customer_email \/ f.customer_phone \/ f.customer_address)}

\* AnalysisResult(...) with the fields the rules differ in; confidence in
\* hundredths; llm tells whether get_llm().generate_json was called.
AnalysisResult(rec, conf, wv, excl, listed, llm) ==
    [recommendation |-> rec, confidence |-> conf, warranty_window_valid |-> wv,
     exclusions_triggered |-> excl, listed |-> listed, llm |-> llm]

\* The try block without the test of the recommendation against the three
\* allowed values.
llm_analysis_unvalidated(f, warranty_valid) ==
    IF f.answer = "error"
    THEN AnalysisResult("NEED_INFO", 50, warranty_valid, {}, {}, TRUE)
    ELSE AnalysisResult(f.answer, 70, warranty_valid, {}, {}, TRUE)

\* The try block of analyze_claim: answer is the capability's recommendation,
\* "error" when the call or the parse of its payload raises.
llm_analysis(f, warranty_valid) ==
    IF f.answer = "error"
    THEN AnalysisResult("NEED_INFO", 50, warranty_valid, {}, {}, TRUE)
    ELSE AnalysisResult(
             IF f.answer \in {"APPROVE", "REJECT", "NEED_INFO"} THEN f.answer
             ELSE "NEED_INFO",
             70, warranty_valid, {}, {}, TRUE)

\* analyze_claim with the exclusion scan moved in front of the warranty check.
analyze_exclusions_first(f) ==
    LET warranty_valid == check_warranty_window(f.purchase, f.claimTs)
        exclusion_hits == find_exclusion_hits(f.text, f.keywords)
    IN IF exclusion_hits # {}
       THEN AnalysisResult("REJECT", 90, warranty_valid, exclusion_hits, {}, FALSE)
       ELSE IF warranty_valid = "False"
       THEN AnalysisResult("REJECT", 95, "False", {"Warranty period expired"}, {}, FALSE)
       ELSE IF critical_missing(f) # {}
       THEN AnalysisResult("NEED_INFO", 90, warranty_valid, {}, critical_missing(f), FALSE)
       ELSE IF check_requirements_missing(f) # {}
       THEN AnalysisResult("NEED_INFO", 85, warranty_valid, {},
                           check_requirements_missing(f), FALSE)
       ELSE llm_analysis(f, warranty_valid)

\* analyze_claim: the analysis it stores for a record that is not in ERROR.
analyze(f) ==
    LET warranty_valid == check_warranty_window(f.purchase, f.claimTs)
        exclusion_hits == find_exclusion_hits(f.text, f.keywords)
    IN IF warranty_valid = "False"
       THEN AnalysisResult("REJECT", 95, "False", {"Warranty period expired"}, {}, FALSE)
       ELSE IF exclusion_hits # {}
       THEN AnalysisResult("REJECT", 90, warranty_valid, exclusion_hits, {}, FALSE)
       ELSE IF critical_missing(f) # {}
       THEN AnalysisResult("NEED_INFO", 90, warranty_valid, {}, critical_missing(f), FALSE)
       ELSE IF check_requirements_missing(f) # {}
       THEN AnalysisResult("NEED_INFO", 85, warranty_valid, {},
                           check_requirements_missing(f), FALSE)
       ELSE llm_analysis(f, warranty_valid)

AnalyzeTexts ==
    {<<"x">>, <<Keyword>>, <<"not", Keyword>>, <<"not", Keyword, "xxxx", Keyword>>}

Answers == {"APPROVE", "REJECT", "NEED_INFO", "MAYBE", "error"}

AnalyzeInputs ==
    [kind : {"analyze"},
     purchase : {NoDate, 0},
     claimTs : {strptime(90), strptime(90) + 1, strptime(91)},
     text : AnalyzeTexts,
     keywords : {{Keyword}},
     customer_name : BOOLEAN, product_name : BOOLEAN,
     customer_email : BOOLEAN, customer_phone : BOOLEAN,
     customer_address : BOOLEAN, product_serial : BOOLEAN,
     desc : Descs,
     requirements : SUBSET {"proof_of_purchase"},
     has_proof_of_purchase : BOOLEAN,
     answer : Answers,
     status : {"EXTRACTED"},
     applied : {FALSE}, out : {NULL}]

\* One application of check_warranty_window.
ApplyWindow ==
    /\ fn.kind = "window" /\ ~fn.applied
    /\ fn' = [fn EXCEPT !.applied = TRUE,
                        !.out = check_warranty_window(fn.purchase, fn.claimTs)]
    /\ UNCHANGED <<wfvars, dvars>>

\* One application of _keyword_present.
ApplyScan ==
    /\ fn.kind = "scan" /\ ~fn.applied
    /\ fn' = [fn EXCEPT !.applied = TRUE, !.out = keyword_present(fn.text, Keyword)]
    /\ UNCHANGED <<wfvars, dvars>>

\* One application of analyze_claim.
ApplyAnalyze ==
    /\ fn.kind = "analyze" /\ ~fn.applied
    /\ fn' = [fn EXCEPT !.applied = TRUE, !.out = analyze(fn), !.status = "ANALYZED"]
    /\ UNCHANGED <<wfvars, dvars>>

\* save_claim: the warranty_valid column of the claims row written for an
\* analysis whose warranty_window_valid is wv.
save_claim(wv) == [warranty_valid |-> IF wv = "True" THEN 1 ELSE 0]

SaveInputs ==
    [kind : {"save"}, wv : {"True", "False", "None"}, applied : {FALSE}, out : {NULL}]

\* One call of save_claim.
ApplySave ==
    /\ fn.kind = "save" /\ ~fn.applied
    /\ fn' = [fn EXCEPT !.applied = TRUE, !.out = save_claim(fn.wv)]
    /\ UNCHANGED <<wfvars, dvars>>

(***************************************************************************)
(* Product and policy selection (nodes/product_policy.py).  A text is a    *)
(* sequence of words with a separator and a letter case; normalize_text    *)
(* keeps the words, in lower case, separated by blanks.                    *)
(***************************************************************************)
normalize_text(raw) == raw.words

\* load_products_catalog()["products"], with the normalized id of each.
Products ==
    <<[product_id |-> "HD-PRO-001", id_words |-> <<"hd", "pro", "001">>,
       name |-> <<"pro", "style">>, aliases |-> << <<"pro">> >>,
       policy_file |-> "pro.txt"],
      [product_id |-> "HD-TRV-001", id_words |-> <<"hd", "trv", "001">>,
       name |-> <<"travel", "mini">>, aliases |-> << <<"mini">> >>,
       policy_file |-> "travel.txt"]>>

\* a in b, for normalized texts whose words do not contain one another.
IsIn(a, b) ==
    \E k \in 0 .. (Len(b) - Len(a)) : \A i \in 1 .. Len(a) : b[k + i] = a[i]

\* A score is a fraction <<numerator, denominator>>.
ScoreGreater(a, b) == a[1] * b[2] > b[1] * a[2]

\* min(score, 0.9)
CapScore(a) == IF ScoreGreater(a, <<9, 10>>) THEN <<9, 10>> ELSE a

\* One step of the partial scoring: a candidate text of product p.
Better(best, p, cand, name, capped) ==
    LET score == <<DescLen(cand), IF DescLen(name) > 1 THEN DescLen(name) ELSE 1>>
    IN IF (IsIn(cand, name) \/ IsIn(name, cand)) /\ ScoreGreater(score, best.score)
       THEN [match |-> p, score |-> IF capped THEN CapScore(score) ELSE score]
       ELSE best

\* The aliases of product p from alias a on, none of them equal to the name.
RECURSIVE ScanAliases(_, _, _, _)
ScanAliases(best, p, a, name) ==
    IF a > Len(Products[p].aliases) THEN best
    ELSE ScanAliases(Better(best, p, Products[p].aliases[a], name, FALSE),
                     p, a + 1, name)

\* The exact tests of the loop body for product p.
ExactMatch(p, name) ==
    \/ Products[p].name = name
    \/ Products[p].id_words = name
    \/ \E a \in DOMAIN Products[p].aliases : Products[p].aliases[a] = name

\* The loop of find_product_match from product p on.
RECURSIVE ScanProducts(_, _, _)
ScanProducts(best, p, name) ==
    IF p > Len(Products) THEN best
    ELSE IF ExactMatch(p, name) THEN [match |-> p, score |-> <<1, 1>>]
    ELSE ScanProducts(
             Better(ScanAliases(best, p, 1, name), p, Products[p].name, name, TRUE),
             p + 1, name)

\* find_product_match(product_name, products): match 0 is None.
find_product_match(raw) ==
    IF raw.words = <<>> THEN [match |-> 0, score |-> <<0, 1>>]
    ELSE ScanProducts([match |-> 0, score |-> <<0, 1>>], 1, normalize_text(raw))

\* prefix_map, for the catalog above and one product that is not in it.
prefix_map ==
    [pfx \in {"PS3K", "TMC", "EB"} |->
        CASE pfx = "PS3K" -> "HD-PRO-001"
          [] pfx = "TMC" -> "HD-TRV-001"
          [] pfx = "EB" -> "HD-ECO-001"]

NoSerial == [prefix |-> "", dash |-> FALSE]

\* The characters before the digits, whether or not a hyphen follows.
serial_prefix_without_hyphen(serial) == serial.prefix

\* product_serial.split("-")[0].upper() if "-" in product_serial else ""
serial_prefix(serial) == IF serial.dash THEN serial.prefix ELSE ""

\* matched_by_serial: the catalog product of the serial prefix, 0 for None.
matched_by_serial(serial) ==
    IF serial = NoSerial THEN 0
    ELSE IF serial_prefix(serial) \notin DOMAIN prefix_map THEN 0
    ELSE LET hits == {p \in DOMAIN Products :
                        Products[p].product_id = prefix_map[serial_prefix(serial)]}
         IN IF hits = {} THEN 0 ELSE CHOOSE p \in hits : \A q \in hits : p <= q

\* load_policy_index(): entries in file order; effective_date NoDate is "".
PolicyEntry(pid, eff, id) ==
    [product_id |-> pid, effective_date |-> eff, policy_id |-> id,
     policy_file |-> "pro.txt", version |-> id,
     requirements |-> {"proof_of_purchase"}, exclusion_keywords |-> {Keyword}]

\* sorted(entries, key=effective_date)[-1]: the last of the entries with the
\* greatest effective date.
LatestOf(index, idxs) ==
    CHOOSE i \in idxs :
        \A j \in idxs :
            \/ index[j].effective_date < index[i].effective_date
            \/ index[j].effective_date = index[i].effective_date /\ j <= i

\* The latest entry of the product, whatever the purchase date.
select_latest_policy(index, product_id, purchase_date) ==
    LET policies == {i \in DOMAIN index : index[i].product_id = product_id}
    IN IF policies = {} THEN 0 ELSE LatestOf(index, policies)

\* select_policy_from_index(product_id, purchase_date) on a policy index:
\* the position of the entry, 0 for None.  An unparseable purchase date is a
\* string that sorts before every ISO date.
select_policy_from_index(index, product_id, purchase_date) ==
    LET policies == {i \in DOMAIN index : index[i].product_id = product_id}
        eligible == {i \in policies : index[i].effective_date <= purchase_date}
    IN IF policies = {} THEN 0
       ELSE IF purchase_date # NoDate /\ eligible # {} THEN LatestOf(index, eligible)
       ELSE LatestOf(index, policies)

\* The policy index of the catalog: two versions for the first product, none
\* for the second.
PolicyIndex ==
    <<PolicyEntry("HD-PRO-001", 0, "POL-1"), PolicyEntry("HD-PRO-001", 1, "POL-2")>>

\* select_product_policy: the selection fields of the record it returns for
\* a record that had none.  exists is the answer of verify_policy_exists for
\* the selected file.
select_policy(f) ==
    LET by_serial == matched_by_serial(f.serial)
        by_name == find_product_match(f.mention)
        final ==
            IF by_serial # 0
            THEN IF by_name.match = by_serial
                 THEN [match |-> by_name.match, confidence |-> <<1, 1>>,
                       reason |-> <<"Matched by both serial number and product name">>]
                 ELSE [match |-> by_serial, confidence |-> <<95, 100>>,
                       reason |-> <<"Matched by serial number prefix">>]
            ELSE IF by_name.match # 0
            THEN [match |-> by_name.match, confidence |-> by_name.score,
                  reason |-> <<"Matched by product name">>]
            ELSE [match |-> 0, confidence |-> <<0, 1>>,
                  reason |-> <<"No product match found">>]
    IN IF final.match = 0
       THEN [product_id |-> NULL, policy_file |-> NULL, policy_id |-> NULL,
             policy_version |-> NULL, policy_requirements |-> {},
             policy_exclusion_keywords |-> {}, policy_selection_reason |-> final.reason,
             product_match_confidence |-> <<0, 1>>]
       ELSE LET pid == Products[final.match].product_id
                e == select_policy_from_index(PolicyIndex, pid, f.purchase)
                policy_file == IF e # 0 THEN PolicyIndex[e].policy_file
                               ELSE Products[final.match].policy_file
            IN [product_id |-> pid,
                policy_file |-> IF f.exists THEN policy_file ELSE NULL,
                policy_id |-> IF e # 0 THEN PolicyIndex[e].policy_id ELSE NULL,
                policy_version |-> IF e # 0 THEN PolicyIndex[e].version ELSE NULL,
                policy_requirements |-> IF e # 0 THEN PolicyIndex[e].requirements ELSE {},
                policy_exclusion_keywords |->
                    IF e # 0 THEN PolicyIndex[e].exclusion_keywords ELSE {},
                policy_selection_reason |->
                    final.reason
                      \o (IF e # 0 THEN <<"Policy">> ELSE <<>>)
                      \o (IF f.exists THEN <<>> ELSE <<"Warning: policy file not found">>),
                product_match_confidence |-> final.confidence]

Mentions ==
    [words : {<<>>, <<"pro", "style">>, <<"mini">>, <<"hd", "pro", "001">>,
              <<"pro", "style", "mini">>, <<"toaster">>},
     sep : {" ", "-"}, upper : BOOLEAN]

Serials == {NoSerial} \cup [prefix : {"PS3K", "TMC", "EB", "ZZ"}, dash : BOOLEAN]

ResolveInputs ==
    [kind : {"resolve"}, mention : Mentions, serial : Serials,
     purchase : PurchaseInputs, exists : BOOLEAN, applied : {FALSE}, out : {NULL}]

\* One application of select_product_policy.
ApplyResolve ==
    /\ fn.kind = "resolve" /\ ~fn.applied
    /\ fn' = [fn EXCEPT !.applied = TRUE, !.out = select_policy(fn)]
    /\ UNCHANGED <<wfvars, dvars>>

MaxEntries == 3

EffectiveDates == 0 .. (MaxPurchaseDay + 1)

PolicyIndexes ==
    UNION {[1 .. n -> {PolicyEntry(pid, eff, "POL") :
                         pid \in {"HD-PRO-001", "HD-TRV-001"}, eff \in EffectiveDates}] :
           n \in 0 .. MaxEntries}

PolicyInputs ==
    [kind : {"policy"}, index : PolicyIndexes, product_id : {"HD-PRO-001"},
     purchase : {NoDate} \cup (0 .. MaxPurchaseDay), applied : {FALSE}, out : {NULL}]

\* One application of select_policy_from_index.
ApplyPolicy ==
    /\ fn.kind = "policy" /\ ~fn.applied
    /\ fn' = [fn EXCEPT !.applied = TRUE,
                        !.out = select_policy_from_index(fn.index, fn.product_id,
                                                         fn.purchase)]
    /\ UNCHANGED <<wfvars, dvars>>

\* The extracted fields analyze_claim reads, for a claim whose product
\* selection is sel: the policy's requirements and exclusion keywords are
\* those select_product_policy put on the record.
AnalysisFields(f, sel) ==
    [purchase |-> f.purchase, claimTs |-> f.claimTs, text |-> f.text,
     keywords |-> sel.policy_exclusion_keywords,
     customer_name |-> TRUE, product_name |-> f.mention.words # <<>>,
     customer_email |-> TRUE, customer_phone |-> FALSE,
     customer_address |-> f.customer_address,
     product_serial |-> f.serial # NoSerial,
     desc |-> f.desc,
     requirements |-> sel.policy_requirements,
     has_proof_of_purchase |-> f.has_proof_of_purchase,
     answer |-> f.answer]

\* select_product_policy followed by analyze_claim on one record.
select_then_analyze(f) ==
    LET sel == select_policy(f)
    IN [selection |-> sel, status |-> "ANALYZED",
        analysis |-> analyze(AnalysisFields(f, sel))]

StageInputs ==
    [kind : {"stages"},
     mention : {m \in Mentions : m.sep = " " /\ ~m.upper},
     serial : Serials,
     purchase : {NoDate, 0}, exists : {TRUE},
     claimTs : {strptime(90), strptime(91)},
     text : {<<"x">>, <<Keyword>>},
     desc : {<<"broken">>,
             <<"thermostat", "thermostat", "thermostat", "thermostat", "thermostat">>},
     customer_address : BOOLEAN, has_proof_of_purchase : BOOLEAN,
     answer : Answers,
     applied : {FALSE}, out : {NULL}]

\* select_product_policy and analyze_claim, one after the other.
ApplyStages ==
    /\ fn.kind = "stages" /\ ~fn.applied
    /\ fn' = [fn EXCEPT !.applied = TRUE, !.out = select_then_analyze(fn)]
    /\ UNCHANGED <<wfvars, dvars>>

MaxRanked == 4

\* What the collection holds: chunk contents with their distance to the query.
Chunks ==
    {[content |-> "a", distance |-> 1], [content |-> "b", distance |-> 2],
     [content |-> "a", distance |-> 2]}

\* The store's ranking for a query, of at most n chunks.
Ranked(n) == UNION {[1 .. k -> Chunks] : k \in 0 .. n}

\* store.query(text, n_results=n): the first n of the ranking.
query(ranking, n) ==
    SubSeq(ranking, 1, IF Len(ranking) < n THEN Len(ranking) ELSE n)

\* res["_query"] = name and the PolicyExcerpt made of res
PolicyExcerpt(results, name) ==
    [i \in DOMAIN results |->
        [content |-> results[i].content, distance |-> results[i].distance,
         query |-> name]]

RECURSIVE Deduplicate(_, _, _)
\* the loop over all_results with seen_content
Deduplicate(all_results, seen_content, excerpts) ==
    IF all_results = <<>> THEN excerpts
    ELSE IF Head(all_results).content \in seen_content
    THEN Deduplicate(Tail(all_results), seen_content, excerpts)
    ELSE Deduplicate(Tail(all_results),
                     seen_content \cup {Head(all_results).content},
                     Append(excerpts, Head(all_results)))

\* Every result becomes an excerpt.
merge_keeping_duplicates(all_results) == all_results

\* "Combine and deduplicate"
merge_excerpts(all_results) == Deduplicate(all_results, {}, <<>>)

\* A retrieval whose failure marks the record as failed.
retrieve_excerpts_aborting(f) ==
    [policy_excerpts |-> <<>>, queries |-> <<>>,
     error_message |-> IF f.fails = "no" THEN f.error_message ELSE "RAG Retrieval Error",
     status |-> IF f.fails = "no" THEN f.status ELSE "ERROR"]

\* retrieve_policy_excerpts on a record that is not in ERROR: the excerpts,
\* the queries put to the store, and the error message and status of the
\* record returned.  fails names the store call that raises.
retrieve_excerpts(f) ==
    LET issue_results == PolicyExcerpt(query(f.issue, 3), "issue")
        terms_results == PolicyExcerpt(query(f.terms, 2), "terms")
        excerpts == merge_excerpts(issue_results \o terms_results)
        general_results == PolicyExcerpt(query(f.general, 3), "fallback")
        raised == \/ f.fails \in {"store", "issue", "terms"}
                  \/ f.fails = "fallback" /\ excerpts = <<>>
    IN IF raised
       THEN [policy_excerpts |-> <<>>,
             queries |-> IF f.fails = "store" THEN <<>>
                         ELSE IF f.fails = "issue" THEN <<"issue">>
                         ELSE IF f.fails = "terms" THEN <<"issue", "terms">>
                         ELSE <<"issue", "terms", "fallback">>,
             error_message |-> "RAG Retrieval Error", status |-> f.status]
       ELSE [policy_excerpts |-> IF excerpts = <<>> THEN general_results ELSE excerpts,
             queries |-> IF excerpts = <<>> THEN <<"issue", "terms", "fallback">>
                         ELSE <<"issue", "terms">>,
             error_message |-> f.error_message, status |-> f.status]

RetrieveInputs ==
    [kind : {"retrieve"}, issue : Ranked(MaxRanked), terms : Ranked(MaxRanked - 1),
     general : {<<>>, <<[content |-> "b", distance |-> 2],
                        [content |-> "b", distance |-> 2]>>},
     fails : {"no"}, error_message : {NULL}, status : {"EXTRACTED"},
     applied : {FALSE}, out : {NULL}]
      \cup
    [kind : {"retrieve"}, issue : Ranked(1), terms : Ranked(1),
     general : {<<>>},
     fails : {"store", "issue", "terms", "fallback"},
     error_message : {NULL}, status : {"EXTRACTED"},
     applied : {FALSE}, out : {NULL}]

\* One application of retrieve_policy_excerpts.
ApplyRetrieve ==
    /\ fn.kind = "retrieve" /\ ~fn.applied
    /\ fn' = [fn EXCEPT !.applied = TRUE, !.out = retrieve_excerpts(fn)]
    /\ UNCHANGED <<wfvars, dvars>>

\* The send_mode arguments tried; NULL is None.
RawModes == {NULL, "", "manual", "Manual ", "demo", "gmail_api", "SMTP", "smtp", "sendgrid"}

\* (send_mode or "manual").strip().lower()
normalize_mode(send_mode) ==
    CASE send_mode = NULL -> "manual"
      [] send_mode = "Manual " -> "manual"
      [] send_mode = "SMTP" -> "smtp"
      [] OTHER -> send_mode

\* No row has been written.
NoRow == [status |-> NULL, provider |-> NULL]

\* DispatchResult(...) with the row record_email_dispatch wrote and whether
\* _send_gmail_api or _send_smtp was entered.
DispatchResult(ok, status, provider, recorded, contacted) ==
    [ok |-> ok, status |-> status, provider |-> provider,
     recorded |-> IF recorded THEN [status |-> status, provider |-> provider]
                  ELSE NoRow,
     contacted |-> contacted]

\* send_claim_email that goes to the provider whatever the recipient and mode.
send_claim_email_unguarded(f) ==
    LET mode == normalize_mode(f.send_mode)
    IN IF f.existing = "SENT"
       THEN DispatchResult(TRUE, "SENT_DUPLICATE_SKIPPED", f.existing_provider,
                           FALSE, FALSE)
       ELSE IF f.accepted
       THEN DispatchResult(TRUE, "SENT", mode, TRUE, TRUE)
       ELSE DispatchResult(FALSE, "FAILED", mode, TRUE, TRUE)

\* send_claim_email as one call: existing is the status of the ledger row of
\* the dispatch key, recipient whether _recipient_from_state found one, svc
\* whether a gmail_service was passed, accepted whether the provider took the
\* message.
send_claim_email(f) ==
    LET mode == normalize_mode(f.send_mode)
        contacts == mode = "smtp" \/ (mode = "gmail_api" /\ f.svc)
    IN IF f.existing = "SENT"
       THEN DispatchResult(TRUE, "SENT_DUPLICATE_SKIPPED", f.existing_provider,
                           FALSE, FALSE)
       ELSE IF ~f.recipient
       THEN DispatchResult(FALSE, "FAILED", mode, TRUE, FALSE)
       ELSE IF mode \in {"manual", "demo", ""}
       THEN DispatchResult(TRUE, "SKIPPED", "manual", TRUE, FALSE)
       ELSE IF contacts /\ f.accepted
       THEN DispatchResult(TRUE, "SENT", mode, TRUE, TRUE)
       ELSE DispatchResult(FALSE, "FAILED", mode, TRUE, contacts)

\* A row of the key is SENT only if a call with the same recipient sent it.
SendInputs ==
    {f \in [kind : {"send"}, existing : {NULL, "SENT", "FAILED", "SKIPPED"},
            existing_provider : {"smtp"}, recipient : BOOLEAN,
            send_mode : RawModes, svc : BOOLEAN, accepted : BOOLEAN,
            applied : {FALSE}, out : {NULL}] :
        f.existing = "SENT" => f.recipient}

\* One call of send_claim_email.
ApplySend ==
    /\ fn.kind = "send" /\ ~fn.applied
    /\ fn' = [fn EXCEPT !.applied = TRUE, !.out = send_claim_email(fn)]
    /\ UNCHANGED <<wfvars, dvars>>

\* The phrases of the body the spam rules look for.
SpamPhrases == {"unsubscribe", "click here", "http", "act now", "wholesale", "price"}

\* spam_indicators of triage_email, in the order of the list; body is the set
\* of phrases that occur in email_body.lower().
spam_indicators(f) ==
    <<"unsubscribe" \in f.body,
      "click here" \in f.body /\ "http" \in f.body,
      "act now" \in f.body \/ "act fast" \in f.body,
      "wholesale" \in f.body /\ "price" \in f.body,
      "credit card" \in f.body /\ "verify" \in f.body,
      f.from_fake,
      f.exclamations > 10>>

RECURSIVE sum(_)
\* sum(list of bool)
sum(flags) ==
    IF flags = <<>> THEN 0 ELSE (IF Head(flags) THEN 1 ELSE 0) + sum(Tail(flags))

\* A key the JSON object does not have; a value float() rejects.
AbsentNumber == -1000
NotANumber == -2000

\* str.upper() on the classifications tried.
upper(text) == IF text = "non_claim" THEN "NON_CLAIM" ELSE text

\* What llm.generate_json answers: it raises, answers text that is not JSON,
\* or answers an object; confidence in hundredths.
TriageResponses ==
    {[kind |-> "raise", classification |-> "absent", confidence |-> AbsentNumber],
     [kind |-> "text", classification |-> "absent", confidence |-> AbsentNumber]}
      \cup
    [kind : {"json"},
     classification : {"CLAIM", "non_claim", "SPAM", "MAYBE", "absent", "nonstring"},
     confidence : {AbsentNumber, NotANumber, 80, 150, -10}]

\* The triage fields of the record triage_email returns; llm tells whether
\* generate_json was called.
TriageResult(result, confidence, llm) ==
    [triage_result |-> result, triage_confidence |-> confidence,
     workflow_status |-> "TRIAGED", llm |-> llm]

\* The classification taken from the answer as it is.
classification_unchecked(response) ==
    IF response.classification = "absent" THEN "CLAIM"
    ELSE upper(response.classification)

\* result.get("classification", "CLAIM").upper(), replaced by CLAIM outside
\* the three results
classification_of(response) ==
    LET classification == IF response.classification = "absent" THEN "CLAIM"
                          ELSE upper(response.classification)
    IN IF classification \notin {"CLAIM", "NON_CLAIM", "SPAM"} THEN "CLAIM"
       ELSE classification

\* triage_email on a record that is not in ERROR
triage(f) ==
    IF sum(spam_indicators(f)) >= 2
    THEN TriageResult("SPAM", 95, FALSE)
    ELSE IF \/ f.response.kind # "json"
            \/ f.response.classification = "nonstring"
            \/ f.response.confidence = NotANumber
    THEN TriageResult("CLAIM", 50, TRUE)
    ELSE TriageResult(classification_of(f.response),
                      IF f.response.confidence = AbsentNumber THEN 80
                      ELSE f.response.confidence,
                      TRUE)

TriageInputs ==
    [kind : {"triage"}, body : SUBSET SpamPhrases, from_fake : BOOLEAN,
     exclamations : {0, 10, 11}, response : TriageResponses,
     applied : {FALSE}, out : {NULL}]

\* One application of triage_email.
ApplyTriage ==
    /\ fn.kind = "triage" /\ ~fn.applied
    /\ fn' = [fn EXCEPT !.applied = TRUE, !.out = triage(fn)]
    /\ UNCHANGED <<wfvars, dvars>>



\* An extracted field: the key is absent, its value is None, or it is a text.
FieldValues == {"absent", "None", "text"}

\* x or default
OrDefault(x, default) == IF x \in {"absent", "None"} THEN default ELSE x

\* draft_customer_response: raised tells that the call raised instead of
\* returning and sets nothing (<<>>); otherwise the draft (its template and
\* what filled it) and the path, named after the claim, are the two keys it
\* sets.
draft_response(f) ==
    LET customer_name == OrDefault(f.customer_name, "Valued Customer")
        product_name == OrDefault(f.product_name, "HairTech Product")
        \* extracted.get("issue_description", "Product issue")[:100]
        issue == IF f.issue_description = "absent" THEN "Product issue"
                 ELSE f.issue_description
        template == IF f.human_decision = "APPROVE" THEN "APPROVAL_TEMPLATE"
                    ELSE IF f.human_decision = "REJECT" THEN "REJECTION_TEMPLATE"
                    ELSE "NEED_INFO_TEMPLATE"
    IN IF issue = "None"
       THEN [raised |-> TRUE, customer_email_draft |-> <<>>,
             customer_email_path |-> <<>>]
       ELSE [raised |-> FALSE,
             customer_email_draft |->
                 <<template, customer_name, product_name, issue>>,
             customer_email_path |-> <<"outbox/emails", f.claim_id>>]

DraftInputs ==
    [kind : {"draft"}, claim_id : {1}, human_decision : Decisions,
     customer_name : FieldValues, product_name : FieldValues,
     issue_description : FieldValues,
     applied : {FALSE}, out : {NULL}]

\* One application of draft_customer_response.
ApplyDraft ==
    /\ fn.kind = "draft" /\ ~fn.applied
    /\ fn' = [fn EXCEPT !.applied = TRUE, !.out = draft_response(fn)]
    /\ UNCHANGED <<wfvars, dvars>>

\* send_claim_email over a ledger whose reads and writes can fail:
\* get_dispatch_by_key returns None when the read raises, and
\* record_email_dispatch returns False, which the caller does not look at,
\* when the write raises.  row is the ledger row of the key after the call.
send_over_ledger(f) ==
    LET seen == IF f.read_ok THEN f.existing ELSE NULL
        r == send_claim_email([f EXCEPT !.existing = seen])
        written == f.write_ok /\ r.recorded # NoRow
    IN [result |-> [ok |-> r.ok, status |-> r.status],
        contacted |-> r.contacted,
        row |-> IF written THEN r.recorded.status ELSE f.existing]

LedgerInputs ==
    [kind : {"ledger"}, existing : {NULL, "SENT", "FAILED"},
     existing_provider : {"smtp"}, recipient : {TRUE},
     send_mode : {"manual", "gmail_api", "smtp"}, svc : BOOLEAN,
     accepted : BOOLEAN, read_ok : BOOLEAN, write_ok : BOOLEAN,
     applied : {FALSE}, out : {NULL}]

\* One call of send_claim_email over such a ledger.
ApplyLedger ==
    /\ fn.kind = "ledger" /\ ~fn.applied
    /\ fn' = [fn EXCEPT !.applied = TRUE, !.out = send_over_ledger(fn)]
    /\ UNCHANGED <<wfvars, dvars>>





InitFunctions ==
    /\ InitWorkflow /\ frontend = "cli" /\ saver = "sqlite"
    /\ InitDispatchIdle
    /\ fn \in WindowInputs \cup ScanInputs \cup AnalyzeInputs
        \cup SaveInputs
        \cup ResolveInputs
        \cup PolicyInputs
        \cup StageInputs
        \cup RetrieveInputs
        \cup SendInputs
        \cup TriageInputs
        \cup DraftInputs
        \cup LedgerInputs

NextFunctions == ApplyWindow \/ ApplyScan \/ ApplyAnalyze
    \/ ApplySave
    \/ ApplyResolve
    \/ ApplyPolicy
    \/ ApplyStages
    \/ ApplyRetrieve
    \/ ApplySend
    \/ ApplyTriage
    \/ ApplyDraft
    \/ ApplyLedger

SpecFunctions == InitFunctions /\ [][NextFunctions]_vars

(***************************************************************************)
(* Several claims advanced side by side.  fn holds the clock, what the     *)
(* extraction finds as issue description in each message, the checkpoint   *)
(* of each thread (thread_id = email_id) and the files under outbox/.      *)
(* Every operation of a front end on one claim is one step.                *)
(***************************************************************************)
\* Bound: seconds that pass on the clock.
MaxSeconds == 2

\* The email_id of the two messages.
EmailIds == {1, 2}

\* Identifiers are told apart below this number.
IdSpace == Cardinality(EmailIds) + 1

\* A claim id that is the timestamp alone.
claim_id_of_timestamp(timestamp, email_id) == timestamp * IdSpace

\* f"CLM-{datetime.now().strftime('%Y%m%d%H%M%S')}-{email_id}": the timestamp
\* has a fixed width, so the id tells both the second and the message.
new_claim_id(timestamp, email_id) == timestamp * IdSpace + email_id

\* open(path, "w"): the file at path holds content, whatever it held.
write_file(files, path, content) ==
    [p \in DOMAIN files \cup {path} |-> IF p = path THEN content ELSE files[p]]

\* The files the nodes of a run write, each named after the record's claim_id.
WrittenBy(files, r, email_id) ==
    LET id == r.values.claim_id
        f1 == IF "review_packet" \in Range(r.trace)
              THEN write_file(files, <<"review_packets", id>>,
                              <<email_id, r.values.analysis>>)
              ELSE files
        f2 == IF "draft_response" \in Range(r.trace)
              THEN write_file(f1, <<"emails", id>>, <<email_id, r.values.draft>>)
              ELSE f1
        f3 == IF "outbox" \in Range(r.trace)
              THEN write_file(write_file(f2, <<"logs", id>>,
                                         <<email_id, r.values.decision>>),
                              <<"summary", id>>, <<email_id, r.values.decision>>)
              ELSE f2
    IN f3

\* datetime.now() moves on.
ClockTick ==
    /\ fn.kind = "claims" /\ fn.now < MaxSeconds
    /\ fn' = [fn EXCEPT !.now = @ + 1, !.last = 0]
    /\ UNCHANGED <<wfvars, dvars>>

\* What a message's pass can meet: the file is there or not, the triage
\* result; the analyser's recommendation does not steer the graph.
ClaimEnvs == {env \in Envs : env.full /\ env.labelOk /\ env.rec = "NEED_INFO"}

\* process_single_claim / run_workflow_to_review on a message not yet started.
ProcessClaim(e) ==
    /\ fn.kind = "claims" /\ fn.thread[e].next = NULL
    /\ \E env \in ClaimEnvs :
         LET r == StreamInput(fn.thread[e],
                      create_initial_state(new_claim_id(fn.now, e)), env)
         IN fn' = [fn EXCEPT !.thread[e] = Checkpoint(r),
                             !.files = WrittenBy(@, r, e),
                             !.last = e]
    /\ UNCHANGED <<wfvars, dvars>>

\* resume_workflow_with_decision.  When draft_customer_response raises, the
\* stream ends with the exception: the checkpoint written by update_state
\* stays, with draft_response as the next node, and the decision form can be
\* submitted again.
DecideClaim(e) ==
    /\ fn.kind = "claims" /\ fn.thread[e].next \in {"human_review", "draft_response"}
    /\ \E d \in Decisions, env \in ResumeEnvs :
         LET c1 == update_state_as_node(fn.thread[e], DecisionUpdate(d), "human_review")
             drafted == draft_response(
                            [claim_id |-> c1.values.claim_id, human_decision |-> d,
                             customer_name |-> "text", product_name |-> "text",
                             issue_description |-> fn.issue[e]])
             r == StreamNone(c1, env)
         IN fn' = IF drafted.raised
                  THEN [fn EXCEPT !.thread[e] = c1, !.last = e]
                  ELSE [fn EXCEPT !.thread[e] = Checkpoint(r),
                                  !.files = WrittenBy(@, r, e),
                                  !.last = e]
    /\ UNCHANGED <<wfvars, dvars>>

\* "Generate Return Label" at the dispatch gate of an approved claim.
LabelClaim(e) ==
    /\ fn.kind = "claims" /\ fn.thread[e].next = "email_gate"
    /\ LET s == fn.thread[e].values
       IN /\ s.decision = "APPROVE"
          /\ <<"labels", s.claim_id>> \notin DOMAIN fn.files
          /\ \E ok \in BOOLEAN :
               LET updated == generate_return_label(s, ok)
               IN fn' = [fn EXCEPT
                           !.thread[e] = update_state(@, [label |-> updated.label]),
                           !.files = IF ok
                                     THEN write_file(@, <<"labels", s.claim_id>>, <<e, "label">>)
                                     ELSE @,
                           !.last = e]
    /\ UNCHANGED <<wfvars, dvars>>

\* complete_workflow_and_send, which an approved claim reaches with its label.
ConfirmClaim(e) ==
    /\ fn.kind = "claims" /\ fn.thread[e].next = "email_gate"
    /\ LET s == fn.thread[e].values
       IN s.decision = "APPROVE" => <<"labels", s.claim_id>> \in DOMAIN fn.files
    /\ \E env \in ResumeEnvs :
         LET r == StreamNone(update_state(fn.thread[e], [email_sent |-> TRUE]), env)
         IN fn' = [fn EXCEPT !.thread[e] = Checkpoint(r),
                             !.files = WrittenBy(@, r, e),
                             !.last = e]
    /\ UNCHANGED <<wfvars, dvars>>

InitClaims ==
    /\ InitWorkflow /\ frontend = "ui"
    /\ InitDispatchIdle
    /\ \E issue \in [EmailIds -> FieldValues] :
         fn = [kind |-> "claims", now |-> 1, issue |-> issue,
               thread |-> [e \in EmailIds |-> NoCkpt],
               files |-> [p \in {} |-> <<>>], last |-> 0]

NextClaims ==
    \/ ClockTick
    \/ \E e \in EmailIds :
        \/ ProcessClaim(e)
        \/ DecideClaim(e)
        \/ LabelClaim(e)
        \/ ConfirmClaim(e)

SpecClaims == InitClaims /\ [][NextClaims]_vars

\* Some operation on the message is open: it has not been started, it waits
\* for a decision, or it waits at the dispatch gate.
CanAdvance(e) ==
    fn.kind = "claims" /\ fn.thread[e].next \in {NULL, "human_review", "draft_response", "email_gate"}

\* The operation that moves the message on: at the dispatch gate of an
\* approved claim without label, the label generation that succeeds.
AdvanceClaim(e) ==
    \/ ProcessClaim(e)
    \/ DecideClaim(e)
    \/ LabelClaim(e) /\ <<"labels", fn.thread[e].values.claim_id>> \in DOMAIN fn'.files
    \/ ConfirmClaim(e)

\* The reviewer keeps working: a message is eventually processed, a decision
\* eventually supplied, a label eventually generated, dispatch eventually
\* confirmed.  This is WF_vars(AdvanceClaim(e)) with the enabling condition
\* written out.
FairnessClaims ==
    \A e \in EmailIds :
        ([]<>~CanAdvance(e)) \/ []<><<AdvanceClaim(e)>>_vars

SpecClaimsLive == SpecClaims /\ FairnessClaims

(***************************************************************************)
(* Properties.                                                             *)
(***************************************************************************)
Rec == ckpt.values

LaterStages == {"extract", "select_policy", "retrieve_excerpts", "analyze",
                "review_packet", "human_review", "draft_response", "email_gate",
                "outbox"}

\* C1: an APPROVE claim is never COMPLETED (never past the dispatch interrupt)
\* while its record has no return label.
C1_ApproveCompletesOnlyWithLabel ==
    (Rec.status = "COMPLETED" /\ Rec.decision = "APPROVE") => Rec.label # NoLabel

\* C4: a resume with no input at the human-decision interrupt records no
\* decision, produces no draft and does not move on to the dispatch interrupt.
C4_NoInputResumeRecordsNoDecision ==
    [][(ckpt.next = "human_review" /\ lastOp' = "resume_none")
         => /\ ckpt'.values.decision = NULL
            /\ ckpt'.values.draft = NULL
            /\ ckpt'.next = "human_review"]_vars

C6_ResumeRepeatsNothing ==
    /\ [][lastOp' = "resume_none"
            => /\ Range(lastRun') \cap sinceInput = {}
               /\ "return_label" \notin Range(lastRun')
               /\ labelFiles' = labelFiles
               /\ ckpt.next = "END" => (lastRun' = <<>> /\ ckpt' = ckpt)]_vars
    /\ [][\A i \in DOMAIN lastRun' :
            lastRun'[i] = "outbox" => (i > 1 /\ Rec.status # "COMPLETED")]_vars

\* C7: extraction and every later stage run only on a record whose triage
\* result is CLAIM; a pass that triages the message NON_CLAIM or SPAM ends
\* right after triage with status TRIAGED and produces nothing further.
C7_LaterStagesOnlyForClaims ==
    /\ [][LET onto == IF lastOp' = "force" THEN cur' ELSE ckpt'.values
          IN onto.triage \in {"NON_CLAIM", "SPAM"}
               => Range(lastRun') \cap LaterStages = {}]_vars
    /\ [][("triage" \in Range(lastRun')
             /\ ckpt'.values.triage \in {"NON_CLAIM", "SPAM"})
            => /\ lastRun' = <<"ingest", "triage">>
               /\ ckpt'.next = "END"
               /\ ckpt'.values.status = "TRIAGED"]_vars

C10_ResumeAfterRestart ==
    /\ [][(lastOp' = "restart" /\ ckpt.next \in InterruptBefore) => ckpt' = ckpt]_vars
    /\ [][(lastOp = "restart" /\ ckpt.next \in InterruptBefore /\ lastRun' # <<>>)
            => lastRun'[1] = ckpt.next]_vars

InFlight == {c \in Callers : call[c].pc # "idle"}

\* C2: while all the send_claim_email calls made so far for the dispatch key
\* are still in progress together and no provider contact has failed, the
\* provider has been contacted at most once.
C2_ConcurrentCallsContactOnce ==
    (calls = Cardinality(InFlight) /\ providerCalls = deliveries) => providerCalls <= 1

\* C3: a call is answered as a duplicate, without a provider contact, exactly
\* when the ledger row it reads has status SENT, whatever the caller's record
\* remembers (so a FAILED or SKIPPED row does not suppress the send); and a
\* call made after a call that sent successfully has returned is answered as
\* a duplicate.
C3_DuplicateIffLedgerSent ==
    /\ [][\A c \in Callers :
            (call[c].pc = "lookup" /\ call'[c].pc # "lookup")
              => /\ (call'[c].result = "SENT_DUPLICATE_SKIPPED") <=> (ledger = "SENT")
                 /\ providerCalls' = providerCalls]_vars
    /\ [](\A c \in Callers :
            (call[c].after /\ call[c].pc = "done")
              => call[c].result = "SENT_DUPLICATE_SKIPPED")

\* C11: the claim_id of the checkpointed record never changes once assigned,
\* whatever operation is applied to the message's thread.
C11_ClaimIdNeverChanges ==
    [][(Rec.claim_id # 0 /\ ckpt'.values.claim_id # 0)
         => ckpt'.values.claim_id = Rec.claim_id]_vars

\* C13: a thread parked at the human-decision interrupt has status
\* AWAITING_REVIEW and a thread parked at the dispatch interrupt has status
\* AWAITING_EMAIL.
C13_StatusNamesInterrupt ==
    /\ ckpt.next = "human_review" => Rec.status = "AWAITING_REVIEW"
    /\ ckpt.next = "email_gate" => Rec.status = "AWAITING_EMAIL"

\* C14: a pass whose intake fails leaves the record in ERROR with an error
\* message and stops at no interrupt; afterwards nothing but a new pass
\* changes the record, so it never becomes COMPLETED.
C14_IntakeErrorIsTerminal ==
    /\ [](Rec.status = "ERROR" => (Rec.error /\ ckpt.next \notin InterruptBefore))
    /\ [][(Rec.status = "ERROR" /\ lastOp' \notin {"start", "reset", "restart"})
            => ckpt'.values = Rec]_vars

\* C15: once the watcher has processed the message and the pass ended in
\* ERROR, the watcher starts no further pass for that message.
C15_WatcherDoesNotRetryErrors ==
    [][(watch = "skipped" /\ Rec.status = "ERROR") => lastOp' # "start"]_vars

\* C12: along the nodes an operation runs, the status is one of PENDING,
\* TRIAGED, EXTRACTED, AWAITING_REVIEW, REVIEWED, AWAITING_EMAIL, COMPLETED or
\* ERROR and never moves backward; resolution, retrieval and analysis leave
\* it unchanged; it is REVIEWED when the draft stage starts.
C12_StatusMovesForward ==
    LET Order == <<"PENDING", "TRIAGED", "EXTRACTED", "AWAITING_REVIEW", "REVIEWED",
                   "AWAITING_EMAIL", "COMPLETED">>
        Rank(st) == CHOOSE i \in DOMAIN Order : Order[i] = st
    IN Len(lastStatus) = Len(lastRun) + 1 =>
         \A i \in DOMAIN lastRun :
           /\ lastStatus[i + 1] \in Range(Order) \cup {"ERROR"}
           /\ (lastRun[i] # "ingest" /\ lastStatus[i] \in Range(Order)
                 /\ lastStatus[i + 1] \in Range(Order))
                => Rank(lastStatus[i]) <= Rank(lastStatus[i + 1])
           /\ lastRun[i] \in {"select_policy", "retrieve_excerpts", "analyze"}
                => lastStatus[i + 1] = lastStatus[i]
           /\ lastRun[i] = "draft_response" => lastStatus[i] = "REVIEWED"

\* An applied function of the given kind.
Applied(kind) == fn.kind = kind /\ fn.applied

\* C18: for a parseable purchase date, check_warranty_window reports valid for
\* every evaluation instant on the calendar date 90 days after the purchase
\* and invalid for every instant on the date 91 days after.
C18_WindowBoundary ==
    (Applied("window") /\ fn.purchase >= 0) =>
      /\ DateOf(fn.claimTs) = fn.purchase + 90 => fn.out = "True"
      /\ DateOf(fn.claimTs) = fn.purchase + 91 => fn.out = "False"

\* C19: the scan reports the keyword exactly when the text holds an
\* occurrence of it that no negation word precedes within 12 characters.
C19_ScanFindsUnnegated ==
    Applied("scan") =>
      (fn.out <=> \E i \in DOMAIN fn.text :
                     fn.text[i] = Keyword /\ ~NegatedAt(fn.text, i))

\* C16: the analysis is that of the first rule, in the order warranty
\* expired, exclusion keyword, critical missing field, policy requirement,
\* reasoning capability, whose own check applies: REJECT 0.95 with
\* warranty-valid false, REJECT 0.9, NEED_INFO 0.9, NEED_INFO 0.85.
C16_FirstApplicableRule ==
    Applied("analyze") =>
      LET out == fn.out
          expired == check_warranty_window(fn.purchase, fn.claimTs) = "False"
          hit == find_exclusion_hits(fn.text, fn.keywords) # {}
          critical == critical_missing(fn) # {}
          required == check_requirements_missing(fn) # {}
      IN /\ expired => /\ out.recommendation = "REJECT"
                       /\ out.confidence = 95
                       /\ out.warranty_window_valid = "False"
         /\ (~expired /\ hit) => (out.recommendation = "REJECT" /\ out.confidence = 90)
         /\ (~expired /\ ~hit /\ critical)
              => (out.recommendation = "NEED_INFO" /\ out.confidence = 90)
         /\ (~expired /\ ~hit /\ ~critical /\ required)
              => (out.recommendation = "NEED_INFO" /\ out.confidence = 85)
         /\ (~expired /\ ~hit /\ ~critical /\ ~required) => out.llm

\* An expired warranty together with an exclusion hit, missing critical
\* fields and a missing requirement has been analysed.
C16_Witness ==
    /\ Applied("analyze")
    /\ check_warranty_window(fn.purchase, fn.claimTs) = "False"
    /\ find_exclusion_hits(fn.text, fn.keywords) # {}
    /\ critical_missing(fn) # {}
    /\ check_requirements_missing(fn) # {}
    /\ fn.out.confidence = 95

\* C17: the reasoning capability is called only when none of the four rules
\* applies, and an APPROVE analysis never coexists with a warranty that has
\* expired, an exclusion keyword occurring un-negated in the text, a missing
\* critical field or a missing policy requirement.
C17_ApproveNeverOverridesRules ==
    Applied("analyze") =>
      LET out == fn.out
          unnegated == \E kw \in fn.keywords : \E i \in DOMAIN fn.text :
                          fn.text[i] = kw /\ ~NegatedAt(fn.text, i)
      IN /\ out.llm => /\ check_warranty_window(fn.purchase, fn.claimTs) # "False"
                       /\ find_exclusion_hits(fn.text, fn.keywords) = {}
                       /\ critical_missing(fn) = {}
                       /\ check_requirements_missing(fn) = {}
         /\ out.recommendation = "APPROVE" =>
              /\ ~(fn.purchase >= 0 /\ DateOf(fn.claimTs) > fn.purchase + 90)
              /\ ~unnegated
              /\ fn.product_name /\ fn.desc # <<>> /\ fn.product_serial
              /\ fn.customer_address
              /\ check_requirements_missing(fn) = {}

\* C20: when neither the warranty rule nor the exclusion rule applies and a
\* critical item is absent, the analysis is NEED_INFO 0.9 without a call of
\* the reasoning capability and lists exactly the absent critical items,
\* the description counting as vague when it is under 50 characters and is
\* under 30 characters, ends in broken/issue/problem or has only vague words.
C20_CriticalItemsListedExactly ==
    Applied("analyze") =>
      LET out == fn.out
          d == fn.desc
          vague == /\ DescLen(d) < 50
                   /\ \/ DescLen(d) < 30
                      \/ (d # <<>> /\ d[Len(d)] \in {"broken", "issue", "problem"})
                      \/ \A i \in DOMAIN d : d[i] \in vague_phrases
          absent ==
              (IF fn.product_name THEN {} ELSE {"product_name"})
                \cup (IF d = <<>> THEN {"issue_description"} ELSE {})
                \cup (IF fn.customer_email \/ fn.customer_phone \/ fn.customer_address
                      THEN {} ELSE {"contact_info"})
                \cup (IF fn.product_serial THEN {} ELSE {"serial_number"})
                \cup (IF fn.customer_address THEN {} ELSE {"customer_address"})
                \cup (IF vague THEN {"detailed_issue_description"} ELSE {})
      IN (/\ check_warranty_window(fn.purchase, fn.claimTs) # "False"
          /\ find_exclusion_hits(fn.text, fn.keywords) = {}
          /\ absent # {})
           => /\ out.recommendation = "NEED_INFO"
              /\ out.confidence = 90
              /\ ~out.llm
              /\ out.listed = absent

\* C21: a description is treated as vague exactly when it is under 50
\* characters and is under 30 characters, ends in broken/issue/problem or has
\* only vague words; a description of 30 to 49 characters that is none of
\* these does not by itself make the analysis NEED_INFO.
C21_VagueExactly ==
    (/\ Applied("analyze")
     /\ check_warranty_window(fn.purchase, fn.claimTs) # "False"
     /\ find_exclusion_hits(fn.text, fn.keywords) = {}) =>
      LET d == fn.desc
          vague == /\ DescLen(d) < 50
                   /\ \/ DescLen(d) < 30
                      \/ (d # <<>> /\ d[Len(d)] \in {"broken", "issue", "problem"})
                      \/ \A i \in DOMAIN d : d[i] \in vague_phrases
          othersPresent == /\ fn.product_name /\ fn.product_serial
                           /\ fn.customer_address
      IN /\ ("detailed_issue_description" \in fn.out.listed) <=> vague
         /\ (~vague /\ othersPresent /\ check_requirements_missing(fn) = {})
              => fn.out.llm

C23_UndeterminedStaysDistinct ==
    /\ (Applied("window") /\ fn.purchase \in {NoDate, BadDate}) => fn.out = "None"
    /\ (Applied("analyze") /\ fn.purchase \in {NoDate, BadDate})
         => /\ fn.out.warranty_window_valid = "None"
            /\ fn.out.confidence # 95
    /\ (Applied("save") /\ fn.wv = "None")
         => fn.out.warranty_valid # save_claim("False").warranty_valid

\* C25: when the serial prefix maps to a catalog product, the result is that
\* product, with confidence 1.0 and a reason naming both signals if the name
\* match is the same product, and with confidence 0.95 and a reason citing
\* the serial number prefix otherwise; without a serial signal a mention
\* equal to a product's name, id or alias resolves to it with confidence 1.0.
C25_SerialAndExactMatch ==
    Applied("resolve") =>
      LET out == fn.out
          name == normalize_text(fn.mention)
          byName == find_product_match(fn.mention).match
          bySerial ==
              {p \in DOMAIN Products :
                 /\ fn.serial.dash
                 /\ fn.serial.prefix \in DOMAIN prefix_map
                 /\ Products[p].product_id = prefix_map[fn.serial.prefix]}
          exact == {p \in DOMAIN Products : ExactMatch(p, name)}
      IN /\ \A p \in bySerial :
              /\ out.product_id = Products[p].product_id
              /\ byName = p
                   => /\ out.product_match_confidence = <<1, 1>>
                      /\ out.policy_selection_reason[1]
                           = "Matched by both serial number and product name"
              /\ byName # p
                   => /\ out.product_match_confidence = <<95, 100>>
                      /\ out.policy_selection_reason[1] = "Matched by serial number prefix"
         /\ (bySerial = {} /\ exact # {})
              => /\ \E p \in exact : out.product_id = Products[p].product_id
                 /\ out.product_match_confidence = <<1, 1>>

\* A serial prefix of one product beside a mention that names another.
C25_Witness ==
    /\ Applied("resolve")
    /\ matched_by_serial(fn.serial) = 1
    /\ find_product_match(fn.mention).match = 2
    /\ fn.out.product_id = "HD-PRO-001"

\* C27: when the file of the selected policy does not exist, the reason is
\* annotated and neither the file nor the policy's id, version, requirements
\* or exclusion keywords are put on the record.
C27_MissingPolicyFileIsNoPolicy ==
    (Applied("resolve") /\ fn.out.product_id # NULL /\ ~fn.exists) =>
      /\ fn.out.policy_selection_reason[Len(fn.out.policy_selection_reason)]
           = "Warning: policy file not found"
      /\ fn.out.policy_file = NULL
      /\ fn.out.policy_id = NULL
      /\ fn.out.policy_version = NULL
      /\ fn.out.policy_requirements = {}
      /\ fn.out.policy_exclusion_keywords = {}

\* C26: select_policy_from_index returns an entry of the product with the
\* greatest effective date not later than the purchase date; with no purchase
\* date or no such entry, an entry of the product with the greatest effective
\* date of all; and None exactly when the product has no entry.
C26_PolicyVersionByDate ==
    Applied("policy") =>
      LET index == fn.index
          mine == {i \in DOMAIN index : index[i].product_id = fn.product_id}
          qualifying == {i \in mine : /\ fn.purchase # NoDate
                                      /\ index[i].effective_date <= fn.purchase}
          from == IF qualifying # {} THEN qualifying ELSE mine
      IN /\ fn.out = 0 <=> mine = {}
         /\ fn.out # 0 =>
              /\ fn.out \in from
              /\ \A j \in from : index[j].effective_date <= index[fn.out].effective_date

\* An older version has been chosen although the product has a newer one.
C26_Witness ==
    /\ Applied("policy") /\ fn.out # 0
    /\ \E j \in DOMAIN fn.index :
         /\ fn.index[j].product_id = fn.product_id
         /\ fn.index[j].effective_date > fn.index[fn.out].effective_date

\* C24: a claim whose product resolves to nothing (null product, confidence 0)
\* is not an error, and its analysis recommends NEED_INFO unless a REJECT rule
\* applies; it is never recommended APPROVE.
C24_UnresolvedProductNeverApproved ==
    (Applied("stages") /\ fn.out.selection.product_id = NULL) =>
      /\ fn.out.selection.product_match_confidence = <<0, 1>>
      /\ fn.out.status # "ERROR"
      /\ fn.out.analysis.recommendation # "APPROVE"
      /\ fn.out.analysis.recommendation = "NEED_INFO"
           \/ (/\ fn.out.analysis.recommendation = "REJECT"
               /\ ~fn.out.analysis.llm)

\* C28: a retrieval that does not fail puts the issue query (first 3) and the
\* terms query (first 2) to the store; each distinct content among their
\* results is returned once, as its first occurrence, in first-seen order
\* with issue results before terms results, so at most 5 excerpts; the
\* fallback query is put exactly when that list would be empty; every excerpt
\* carries the name of its query and its distance.
C28_MergedExcerpts ==
    (Applied("retrieve") /\ fn.fails = "no") =>
      LET I == SubSeq(fn.issue, 1, IF Len(fn.issue) < 3 THEN Len(fn.issue) ELSE 3)
          T == SubSeq(fn.terms, 1, IF Len(fn.terms) < 2 THEN Len(fn.terms) ELSE 2)
          G == SubSeq(fn.general, 1, IF Len(fn.general) < 3 THEN Len(fn.general) ELSE 3)
          all == I \o T
          ex == fn.out.policy_excerpts
          First(c) == CHOOSE p \in DOMAIN all :
                          /\ all[p].content = c
                          /\ \A j \in 1 .. (p - 1) : all[j].content # c
      IN IF all = <<>>
         THEN /\ fn.out.queries = <<"issue", "terms", "fallback">>
              /\ Len(ex) = Len(G)
              /\ \A k \in DOMAIN ex :
                   /\ ex[k].content = G[k].content
                   /\ ex[k].distance = G[k].distance
                   /\ ex[k].query = "fallback"
         ELSE /\ fn.out.queries = <<"issue", "terms">>
              /\ Len(ex) <= 5
              /\ {ex[k].content : k \in DOMAIN ex} = {all[p].content : p \in DOMAIN all}
              /\ \A k, l \in DOMAIN ex :
                   k < l => /\ ex[k].content # ex[l].content
                            /\ First(ex[k].content) < First(ex[l].content)
              /\ \A k \in DOMAIN ex :
                   /\ ex[k].distance = all[First(ex[k].content)].distance
                   /\ ex[k].query = IF First(ex[k].content) <= Len(I)
                                    THEN "issue" ELSE "terms"

\* A terms result repeating an issue result has been dropped, and a terms
\* result follows the issue results.
C28_Witness ==
    /\ Applied("retrieve") /\ fn.fails = "no"
    /\ Len(fn.issue) >= 1 /\ Len(fn.terms) >= 2
    /\ fn.terms[1].content = fn.issue[1].content
    /\ \E k \in DOMAIN fn.out.policy_excerpts :
         fn.out.policy_excerpts[k].query = "terms"
    /\ fn.out.policy_excerpts[1].query = "issue"

\* C29: when a call to the store raises inside retrieval, the record
\* returned has an error message and no excerpts, keeps its status, which is
\* not ERROR, and from there analysis runs and the claim parks at the
\* human-decision interrupt.
C29_RetrievalFailureIsLocal ==
    (/\ Applied("retrieve")
     /\ \/ fn.fails = "store"
        \/ \E i \in DOMAIN fn.out.queries : fn.out.queries[i] = fn.fails) =>
      LET s == [EmptyRecord EXCEPT !.claim_id = 1, !.triage = "CLAIM",
                                   !.status = fn.out.status]
      IN /\ fn.out.error_message # NULL
         /\ fn.out.policy_excerpts = <<>>
         /\ fn.out.status = fn.status
         /\ fn.out.status # "ERROR"
         /\ \A env \in Envs :
              LET r == RunGraph(s, Successor("retrieve_excerpts", s), env, FALSE)
              IN /\ r.next = "human_review"
                 /\ r.values.status # "ERROR"
                 /\ r.values.analysis = env.rec

\* The terms query has raised after the issue query answered.
C29_Witness ==
    /\ Applied("retrieve") /\ fn.fails = "terms"
    /\ fn.issue # <<>>
    /\ fn.out.error_message = "RAG Retrieval Error"

\* C30 as stated: a provider is contacted only when a recipient resolves and
\* the mode is gmail_api or smtp; without a recipient a FAILED dispatch is
\* recorded and the result is not ok; in manual mode (with a recipient) a
\* SKIPPED dispatch with provider manual is recorded and the result is ok;
\* in both cases no provider is contacted.
C30_GuardsBeforeProvider ==
    Applied("send") =>
      LET out == fn.out
          manual == fn.send_mode \in {NULL, "manual", "Manual "}
      IN /\ out.contacted =>
              (fn.recipient /\ fn.send_mode \in {"gmail_api", "SMTP", "smtp"})
         /\ ~fn.recipient =>
              /\ out.recorded.status = "FAILED"
              /\ ~out.ok /\ ~out.contacted
         /\ (fn.recipient /\ manual) =>
              /\ out.recorded = [status |-> "SKIPPED", provider |-> "manual"]
              /\ out.ok /\ out.status = "SKIPPED" /\ out.provider = "manual"
              /\ ~out.contacted

\* C30, amended: the same for a call whose dispatch key has no SENT row; a
\* call whose key is already SENT records nothing, contacts no provider and
\* returns ok as a duplicate, in manual mode too.
C30_GuardsAfterDuplicateCheck ==
    Applied("send") =>
      LET out == fn.out
          manual == fn.send_mode \in {NULL, "manual", "Manual "}
      IN /\ out.contacted =>
              (fn.recipient /\ fn.send_mode \in {"gmail_api", "SMTP", "smtp"})
         /\ ~fn.recipient =>
              /\ out.recorded.status = "FAILED"
              /\ ~out.ok /\ ~out.contacted
         /\ (fn.recipient /\ manual /\ fn.existing # "SENT") =>
              /\ out.recorded = [status |-> "SKIPPED", provider |-> "manual"]
              /\ out.ok /\ out.status = "SKIPPED" /\ out.provider = "manual"
              /\ ~out.contacted
         /\ fn.existing = "SENT" =>
              /\ out.recorded = NoRow /\ ~out.contacted
              /\ out.ok /\ out.status = "SENT_DUPLICATE_SKIPPED"

\* A call in smtp mode without a recipient has recorded FAILED without
\* contacting the provider.
C30_Witness ==
    /\ Applied("send") /\ ~fn.recipient /\ fn.send_mode = "smtp"
    /\ fn.out.recorded = [status |-> "FAILED", provider |-> "smtp"]
    /\ ~fn.out.contacted

\* C31: triage of an ingested message ends with a result among CLAIM,
\* NON_CLAIM and SPAM and status TRIAGED; when the reasoning call raises or
\* answers something malformed or outside the set the result is CLAIM, and a
\* CLAIM goes on through extraction to the human-decision interrupt; with two
\* or more spam indicators the result is SPAM and the reasoning capability
\* is not called.
C31_TriageAlwaysClassifies ==
    Applied("triage") =>
      LET out == fn.out
          r == fn.response
          indicators ==
              {i \in DOMAIN spam_indicators(fn) : spam_indicators(fn)[i]}
          unusable == \/ r.kind # "json"
                      \/ r.classification \in {"MAYBE", "nonstring"}
                      \/ r.confidence = NotANumber
          s == [EmptyRecord EXCEPT !.claim_id = 1, !.ingested = TRUE,
                                   !.triage = out.triage_result,
                                   !.status = out.workflow_status]
      IN /\ out.triage_result \in TriageResults
         /\ out.workflow_status = "TRIAGED"
         /\ (Cardinality(indicators) >= 2)
              => (out.triage_result = "SPAM" /\ ~out.llm)
         /\ (Cardinality(indicators) < 2) => out.llm
         /\ (out.llm /\ unusable) => out.triage_result = "CLAIM"
         /\ out.triage_result = "CLAIM" =>
              \A env \in Envs :
                 LET run == RunGraph(s, Successor("triage", s), env, FALSE)
                 IN /\ run.trace[1] = "extract"
                    /\ run.next = "human_review"

\* The reasoning capability has answered a classification outside the set.
C31_Witness ==
    /\ Applied("triage") /\ fn.out.llm
    /\ fn.response.classification = "MAYBE"
    /\ fn.response.confidence = 80
    /\ fn.out.triage_result = "CLAIM"

\* C39: every confidence stored on the record lies in [0,1]: the triage
\* confidence and the analysis confidence (in hundredths) and the product
\* match confidence (a fraction).
C39_ConfidenceInUnitInterval ==
    /\ Applied("triage") =>
         (fn.out.triage_confidence >= 0 /\ fn.out.triage_confidence <= 100)
    /\ Applied("resolve") =>
         LET c == fn.out.product_match_confidence
         IN c[1] >= 0 /\ c[2] > 0 /\ c[1] <= c[2]
    /\ Applied("analyze") =>
         (fn.out.confidence >= 0 /\ fn.out.confidence <= 100)

\* C38: for every decision and every combination of absent or null extracted
\* fields, the issue description included, drafting returns without raising
\* and sets the draft and its path.
C38_DraftNeverRaises ==
    Applied("draft") =>
      /\ ~fn.out.raised
      /\ fn.out.customer_email_draft # <<>>
      /\ fn.out.customer_email_path # <<>>

\* C32: however concurrent ensure_indexed calls on the empty index interleave,
\* no chunk id is ever held twice, every call ends by returning, and once
\* every caller has returned each chunk id is held exactly once.
C32_IndexBuildIsIdempotent ==
    fn.kind = "index" =>
      /\ \A id \in ChunkIds : fn.collection[id] <= 1
      /\ (\A t \in Indexers : fn.thread[t].pc = "done")
           => (\A id \in ChunkIds : fn.collection[id] = 1)
      /\ \A t \in Indexers :
           fn.thread[t].pc # "done" => ENABLED (IndexCall(t) \/ EnsureIndexed(t)
                                               \/ IndexPoliciesCheck(t) \/ IndexFile(t))

\* Two callers have both found the index empty and both have added files.
C32_Witness ==
    /\ fn.kind = "index"
    /\ \A t \in Indexers : fn.thread[t].pc = "done"
    /\ \E t, u \in Indexers :
         /\ t # u
         /\ fn.thread[t].count > 0 /\ fn.thread[t].count < Cardinality(ChunkIds)
         /\ fn.thread[u].count > 0 /\ fn.thread[u].count < Cardinality(ChunkIds)

\* C35: once the ledger row of the dispatch key is SENT, no step of any
\* send_claim_email call for the key makes it FAILED or SKIPPED.
C35_SentIsNeverOverwritten ==
    [][ledger = "SENT" => ledger' = "SENT"]_vars

\* C36: also when the ledger's reads or writes fail, a call that reports
\* SENT leaves the ledger row of its key SENT, a call that contacted a
\* provider leaves the row with its outcome, and no provider is contacted
\* for a key whose row is SENT.
C36_SentIsRecorded ==
    Applied("ledger") =>
      /\ fn.out.result.status = "SENT" => fn.out.row = "SENT"
      /\ fn.out.contacted =>
           /\ fn.out.row = fn.out.result.status
           /\ fn.existing # "SENT"

\* C37: whenever the record has email_sent true, or is COMPLETED with a
\* decision, the dispatch ledger holds a SENT or SKIPPED row for the claim's
\* email.
C37_ConfirmationBackedByLedger ==
    (Rec.email_sent \/ (Rec.status = "COMPLETED" /\ Rec.decision # NULL))
        => ledger \in {"SENT", "SKIPPED"}

\* C40: a record whose status is COMPLETED has triage result CLAIM, a human
\* decision among APPROVE, REJECT and NEED_INFO, an analysis and a response
\* draft.
C40_CompletedIsWellFormed ==
    \A s \in {Rec, cur} :
        s.status = "COMPLETED" =>
          /\ s.triage = "CLAIM"
          /\ s.decision \in Decisions
          /\ s.analysis # NULL
          /\ s.draft # NULL

C34_ClaimEventuallyCompleted ==
    /\ [](fn.kind = "claims" =>
            \A e \in EmailIds :
                fn.thread[e].next \in {NULL, "human_review", "email_gate", "END"})
    /\ \A e \in EmailIds :
          (fn.kind = "claims" /\ fn.thread[e].values.triage = "CLAIM"
              /\ fn.thread[e].values.status # "ERROR")
            ~> (fn.thread[e].values.status = "COMPLETED")

====
